---- MODULE Spec2Model ----
(***************************************************************************)
(* Model of scripts/tile_city_mesh.py: the tile pipeline that cuts a city  *)
(* mesh into printable tiles (height profiling, quantized underside,       *)
(* corner magnet sockets, ordered boolean subtraction, export).            *)
(*                                                                         *)
(* Lengths are integers counted in ticks of 1e-7 m, so that every constant *)
(* of the script (down to EPS = 1e-6 m) and every half of it is a whole    *)
(* number.  The script computes in IEEE doubles: the result of each        *)
(* floating-point operation of quantized_bottom is the exact result plus a *)
(* rounding error, which is fixed for a run (variable fp) and bounded by   *)
(* MaxRoundErr ticks.  The runs of the whole script are on inputs whose    *)
(* operations are exact (fp = Exact).                                      *)
(*                                                                         *)
(* The second half models backend/app.py and the management scripts        *)
(* backend/manage_users.py and backend/add_admin.py: the user store, the   *)
(* projects and uploaded files, and the access tokens, one action for each *)
(* request handler and script command (specification SpecBackend).         *)
(***************************************************************************)
EXTENDS Integers, Sequences, FiniteSets, TLC

VARIABLES
    cfg,        \* the CONFIG block (module globals), as edited before the run
    fp,         \* rounding error of each floating-point operation of quantized_bottom
    mesh,       \* vertices of the city mesh stored at CITY_MESH_PATH (world coordinates)
    fs,         \* file system: does CITY_MESH_PATH exist, does OUTPUT_DIR exist
    pc,         \* position of main()
    loop,       \* main(): grid indices process_tile has still to be called for
    scene,      \* Blender scene: object name -> [kind, hidden]
    tiles,      \* main(): the list `tiles` (cube objects with their modifier stacks)
    cur,        \* main(): position in `for t in tiles` and the names still to apply
    exports,    \* files written by export_mesh.stl, in order
    stdout,     \* lines printed
    raised,     \* exception that ended the run, <<>> if none
    steps,      \* history: every modifier_apply call, with its outcome
    profiled,   \* history: every process_tile call, with the min_z it found
    probe,      \* a single call of a pure function: [fn, arg, result]
    users,          \* table users: rows [id, username, hashed_password, is_admin, account]
    projects,       \* table projects: rows [id, name, created_by, creator]
    user_projects,  \* table user_projects: pairs <<user_id, project_id>>
    uploaded_files, \* table uploaded_files: rows [id, file_path, uploaded_by, project_id]
    assets,         \* files stored under static/assets, by path
    tokens,         \* access tokens issued: [sub, account]
    born,           \* history: the number of user rows ever inserted
    response        \* what the last request or script command answered

\* The field `account` of a user row is the serial number of the row, never
\* used again (ids are: SQLite gives max(id) + 1).  Like `creator` of a
\* project and `account` of a token it is history: the program stores none
\* of them and no handler reads them.
backend == <<users, projects, user_projects, uploaded_files, assets, tokens,
             born, response>>

pipeline == <<cfg, fp, mesh, fs, pc, loop, scene, tiles, cur, exports, stdout,
              raised, steps, profiled, probe>>

vars == <<cfg, fp, mesh, fs, pc, loop, scene, tiles, cur, exports, stdout,
          raised, steps, profiled, probe, users, projects, user_projects,
          uploaded_files, assets, tokens, born, response>>

-----------------------------------------------------------------------------
(* Bounds of the model *)

MaxVerts == 2        \* a mesh has at most this many vertices
MaxFailures == 1     \* at most this many modifier_apply calls fail in a run
MaxRoundErr == 1     \* a floating-point operation is off by at most this many ticks

-----------------------------------------------------------------------------
(* CONFIG block, in ticks of 1e-7 m unless stated otherwise *)

MM == 10000                         \* one millimetre
TILE_SIZE == 2000000                \* 0.20
TILES_X == 3
TILES_Y == 5
MIN_MODEL_BASE_DEPTH == 50000       \* 0.005
FILL_LAYER_THICKNESS == 200000      \* 0.02
QUANTIZE_FILL == TRUE
QUANTIZE_ANCHOR_Z == 0
EPS == 10                           \* 1e-6
MAGNET_RADIUS == 50000              \* 0.005
MAGNET_HEIGHT == 20000              \* 0.002
MAGNET_PERIM_OFFSET_MM == 4         \* millimetres
MAGNET_SAFETY == 10000              \* 0.001
COUNTERSINK_SHOULDER == 10000       \* 0.001
SINGLE_TILE_MODE == TRUE
SINGLE_TILE_ROW == 1
SINGLE_TILE_COL == 2

\* The CONFIG block as shipped.
DefaultConfig ==
    [TILE_SIZE |-> TILE_SIZE, TILES_X |-> TILES_X, TILES_Y |-> TILES_Y,
     MIN_MODEL_BASE_DEPTH |-> MIN_MODEL_BASE_DEPTH,
     FILL_LAYER_THICKNESS |-> FILL_LAYER_THICKNESS,
     QUANTIZE_FILL |-> QUANTIZE_FILL,
     QUANTIZE_ANCHOR_Z |-> QUANTIZE_ANCHOR_Z,
     EPS |-> EPS,
     MAGNET_RADIUS |-> MAGNET_RADIUS, MAGNET_HEIGHT |-> MAGNET_HEIGHT,
     MAGNET_PERIM_OFFSET_MM |-> MAGNET_PERIM_OFFSET_MM,
     MAGNET_SAFETY |-> MAGNET_SAFETY,
     COUNTERSINK_SHOULDER |-> COUNTERSINK_SHOULDER,
     SINGLE_TILE_MODE |-> SINGLE_TILE_MODE,
     SINGLE_TILE_ROW |-> SINGLE_TILE_ROW, SINGLE_TILE_COL |-> SINGLE_TILE_COL]

-----------------------------------------------------------------------------
(* Python values *)

None == <<>>                \* Optional: <<>> is None, <<v>> is the value v
Some(v) == <<v>>
Max(a, b) == IF a >= b THEN a ELSE b
MinOf(S) == CHOOSE m \in S : \A n \in S : m <= n

\* math.floor(a / b) for b > 0 (TLA+ \div rounds toward minus infinity).
FloorDiv(a, b) == a \div b

\* Floating-point operations on doubles: the exact result plus the rounding
\* error of the operation.  Adding or subtracting zero, multiplying by zero or
\* by a power of two and dividing zero are exact.
RoundErrs == (0 - MaxRoundErr) .. MaxRoundErr
FpSites == {"sub1", "sub2", "div", "mul", "add", "sub3"}
Exact == [s \in FpSites |-> 0]

Abs(a) == IF a < 0 THEN 0 - a ELSE a
PowersOfTwo == {1, 2, 4, 8, 16, 32, 64, 128, 256, 512, 1024}
FSub(a, b, err) == IF b = 0 \/ a = 0 THEN a - b ELSE a - b + err
FAdd(a, b, err) == IF a = 0 \/ b = 0 THEN a + b ELSE a + b + err
\* n * b for a whole number n
FMul(n, b, err) == IF n = 0 \/ b = 0 \/ Abs(n) \in PowersOfTwo THEN n * b ELSE n * b + err
\* math.floor(a / b) for b > 0: the quotient is rounded before math.floor sees
\* it, which moves a quotient that is within the rounding error of a whole
\* number across it, as an error on the dividend does here.
FloorFDiv(a, b, err) == IF a = 0 THEN 0 ELSE FloorDiv(a + err, b)
\* int(a / b), rounding toward zero
TruncFDiv(a, b, err) ==
    IF a = 0 THEN 0
    ELSE IF a + err >= 0 THEN FloorDiv(a + err, b) ELSE 0 - FloorDiv(0 - (a + err), b)

-----------------------------------------------------------------------------
(* 1) UTILITIES *)

tile_aabb(row, col) ==
    [min_x |-> col * cfg.TILE_SIZE, max_x |-> (col + 1) * cfg.TILE_SIZE,
     min_y |-> row * cfg.TILE_SIZE, max_y |-> (row + 1) * cfg.TILE_SIZE]

\* min(zs): the first element, replaced by every later one that is smaller
RECURSIVE py_min_from(_, _)
py_min_from(m, zs) ==
    IF zs = <<>> THEN m
    ELSE py_min_from(IF Head(zs) < m THEN Head(zs) ELSE m, Tail(zs))

py_min(zs) == py_min_from(Head(zs), Tail(zs))

min_z_in_tile_first(city, row, col) ==
    LET bb == tile_aabb(row, col)
        inside == SelectSeq(city, LAMBDA w : /\ bb.min_x <= w.x /\ w.x <= bb.max_x
                                             /\ bb.min_y <= w.y /\ w.y <= bb.max_y)
    IN  IF inside # <<>> THEN Some(inside[1].z) ELSE None

min_z_in_tile_halfopen(city, row, col) ==
    LET bb == tile_aabb(row, col)
        inside == SelectSeq(city, LAMBDA w : /\ bb.min_x <= w.x /\ w.x < bb.max_x
                                             /\ bb.min_y <= w.y /\ w.y < bb.max_y)
        zs == [k \in 1..Len(inside) |-> inside[k].z]
    IN  IF zs # <<>> THEN Some(py_min(zs)) ELSE None

\* city is the list of the vertices of the city mesh, in the order of
\* city_obj.data.vertices.
min_z_in_tile(city, row, col) ==
    LET bb == tile_aabb(row, col)
        inside == SelectSeq(city, LAMBDA w : /\ bb.min_x <= w.x /\ w.x <= bb.max_x
                                             /\ bb.min_y <= w.y /\ w.y <= bb.max_y)
        zs == [k \in 1..Len(inside) |-> inside[k].z]
    IN  IF zs # <<>> THEN Some(py_min(zs)) ELSE None

quantized_bottom_trunc(min_z) ==
    LET step == cfg.FILL_LAYER_THICKNESS
        pre_base == FSub(min_z, cfg.MIN_MODEL_BASE_DEPTH, fp["sub1"])
        d == FSub(pre_base, cfg.QUANTIZE_ANCHOR_Z, fp["sub2"])
        n == TruncFDiv(d, step, fp["div"])
        snapped == FAdd(cfg.QUANTIZE_ANCHOR_Z, FMul(n, step, fp["mul"]), fp["add"])
    IN  IF ~cfg.QUANTIZE_FILL
        THEN FSub(pre_base, cfg.FILL_LAYER_THICKNESS, fp["sub2"])
        ELSE FSub(snapped, cfg.EPS, fp["sub3"])

quantized_bottom_unanchored(min_z) ==
    LET step == cfg.FILL_LAYER_THICKNESS
        pre_base == FSub(min_z, cfg.MIN_MODEL_BASE_DEPTH, fp["sub1"])
        d == FSub(pre_base, cfg.QUANTIZE_ANCHOR_Z, fp["sub2"])
        n == FloorFDiv(d, step, fp["div"])
        snapped == FMul(n, step, fp["mul"])
    IN  IF ~cfg.QUANTIZE_FILL
        THEN FSub(pre_base, cfg.FILL_LAYER_THICKNESS, fp["sub2"])
        ELSE FSub(snapped, cfg.EPS, fp["sub3"])

quantized_bottom(min_z) ==
    LET step == cfg.FILL_LAYER_THICKNESS
        pre_base == FSub(min_z, cfg.MIN_MODEL_BASE_DEPTH, fp["sub1"])
        d == FSub(pre_base, cfg.QUANTIZE_ANCHOR_Z, fp["sub2"])
        n == FloorFDiv(d, step, fp["div"])
        snapped == FAdd(cfg.QUANTIZE_ANCHOR_Z, FMul(n, step, fp["mul"]), fp["add"])
    IN  IF ~cfg.QUANTIZE_FILL
        THEN FSub(pre_base, cfg.FILL_LAYER_THICKNESS, fp["sub2"])
        ELSE FSub(snapped, cfg.EPS, fp["sub3"])

-----------------------------------------------------------------------------
(* Strings.  A string is a sequence of tokens: "_", "-", ".", a decimal    *)
(* digit, or a literal run of other characters ("Tile", "MagnetHole").     *)

Digits == <<"0", "1", "2", "3", "4", "5", "6", "7", "8", "9">>
DigitSet == {Digits[i] : i \in 1..10}
DigitValue(ch) == (CHOOSE i \in 1..10 : Digits[i] = ch) - 1

RECURSIVE DecNat(_)
DecNat(n) == IF n < 10 THEN <<Digits[n + 1]>>
             ELSE Append(DecNat(n \div 10), Digits[(n % 10) + 1])

\* str(n) of a Python int, as the f-strings format row, col and i.
py_str(n) == IF n < 0 THEN <<"-">> \o DecNat(0 - n) ELSE DecNat(n)

RECURSIVE NatOf(_)
NatOf(s) == IF s = <<>> THEN 0
            ELSE 10 * NatOf(SubSeq(s, 1, Len(s) - 1)) + DigitValue(s[Len(s)])

AllDigits(s) == s # <<>> /\ \A i \in 1..Len(s) : s[i] \in DigitSet

\* int(s): Some(value), or None where Python raises ValueError.
py_int(s) ==
    IF AllDigits(s) THEN Some(NatOf(s))
    ELSE IF s # <<>> /\ s[1] = "-" /\ AllDigits(Tail(s)) THEN Some(0 - NatOf(Tail(s)))
    ELSE None

\* s.split(sep): the pieces of s between the occurrences of sep.
RECURSIVE py_split(_, _)
py_split(s, sep) ==
    IF \A i \in 1..Len(s) : s[i] # sep THEN <<s>>
    ELSE LET k == CHOOSE i \in 1..Len(s) : s[i] = sep /\ \A j \in 1..(i - 1) : s[j] # sep
         IN  <<SubSeq(s, 1, k - 1)>> \o py_split(SubSeq(s, k + 1, Len(s)), sep)

TileName(row, col) == <<"Tile", "_">> \o py_str(col) \o <<"_">> \o py_str(row)
CutterName(base, row, col, i) ==
    <<base, "_">> \o py_str(col) \o <<"_">> \o py_str(row) \o <<"_">> \o py_str(i)
ModifierName(base, i) == <<base, "_">> \o py_str(i)
CityName == <<"CityMesh">>
DifferenceName == <<"Difference">>

\* name.startswith(("MagnetHole", "MagnetCountersink"))
IsMagnetMod(name) == name # <<>> /\ name[1] \in {"MagnetHole", "MagnetCountersink"}

\* OUTPUT_DIR / f"tile_{col}_{row}.stl"
OutPath(row, col) ==
    <<"tile", "_">> \o py_str(col) \o <<"_">> \o py_str(row) \o <<".stl">>

-----------------------------------------------------------------------------
(* Fixture placement *)

Half(x) == x \div 2      \* x / 2; every halved length of the model is even

offset_m_unclamped == cfg.MAGNET_PERIM_OFFSET_MM * MM

offset_m_radius_only == Max(cfg.MAGNET_PERIM_OFFSET_MM * MM, cfg.MAGNET_RADIUS)

offset_m_drifting ==
    Max(cfg.MAGNET_PERIM_OFFSET_MM * MM, cfg.MAGNET_RADIUS + cfg.MAGNET_SAFETY) + Len(steps) + Len(tiles)

\* offset_m: the configured offset, millimetres to metres, clamped from below.
offset_m ==
    Max(cfg.MAGNET_PERIM_OFFSET_MM * MM, cfg.MAGNET_RADIUS + cfg.MAGNET_SAFETY)

extra == 100000          \* 0.01
MIN_CONE_RADIUS == 5000  \* 0.0005, line 132
CONE_OVERLAP == 5000     \* 0.0005, line 134

magnet_center_z_flush(tile_bottom_z) == tile_bottom_z - Half(cfg.MAGNET_HEIGHT + extra)

\* magnet_center_z: the Z of the centre of a bore whose underside is tile_bottom_z.
magnet_center_z(tile_bottom_z) == tile_bottom_z + Half(cfg.MAGNET_HEIGHT) - Half(extra)

cone_base_z_flush(tile_bottom_z) == tile_bottom_z + cfg.MAGNET_HEIGHT

\* cone_base_z: the Z of the base plane of a countersink, "small overlap".
cone_base_z(tile_bottom_z) == tile_bottom_z + cfg.MAGNET_HEIGHT - CONE_OVERLAP

\* The eight cutters add_corner_magnets creates, in creation order, each with
\* the name of the boolean modifier that add_boolean puts on the cube for it.
add_corner_magnets(row, col, x, y, z, cube_height) ==
    LET depth == cfg.MAGNET_HEIGHT + extra
        tile_bottom_z == z - Half(cube_height)
        half == Half(cfg.TILE_SIZE)
        dx == half - offset_m
        dy == half - offset_m
        corners == << <<x - dx, y - dy>>, <<x + dx, y - dy>>,
                      <<x - dx, y + dy>>, <<x + dx, y + dy>> >>
        cone_base_radius == Max(cfg.MAGNET_RADIUS - cfg.COUNTERSINK_SHOULDER, MIN_CONE_RADIUS)
        cone_h == cone_base_radius
        cone_center_z == cone_base_z(tile_bottom_z) + Half(cone_h)
        cyl(i) == [name |-> CutterName("MagnetHole", row, col, i - 1),
                   row |-> row, col |-> col,
                   modifier |-> ModifierName("MagnetHole", i - 1),
                   kind |-> "cylinder", radius |-> cfg.MAGNET_RADIUS, depth |-> depth,
                   location |-> <<corners[i][1], corners[i][2],
                                magnet_center_z(tile_bottom_z)>>]
        cone(i) == [name |-> CutterName("MagnetCountersink", row, col, i - 1),
                    row |-> row, col |-> col,
                    modifier |-> ModifierName("MagnetCountersink", i - 1),
                    kind |-> "cone", radius |-> cone_base_radius, depth |-> cone_h,
                    location |-> <<corners[i][1], corners[i][2], cone_center_z>>]
    IN  [k \in 1..8 |-> IF k % 2 = 1 THEN cyl((k + 1) \div 2) ELSE cone(k \div 2)]

-----------------------------------------------------------------------------
(* Scene objects *)

StartupScene ==
    [n \in {<<"Cube">>, <<"Camera">>, <<"Light">>} |-> [kind |-> "startup", hidden |-> FALSE]]

Boolean(name, cutter) ==
    [name |-> name, object |-> cutter, operation |-> "DIFFERENCE", solver |-> "EXACT"]

CutterObject_shown(c) ==
    [kind |-> c.kind, hidden |-> FALSE, row |-> c.row, col |-> c.col,
     radius |-> c.radius, depth |-> c.depth, location |-> c.location]

CutterObject(c) ==
    [kind |-> c.kind, hidden |-> TRUE, row |-> c.row, col |-> c.col,
     radius |-> c.radius, depth |-> c.depth, location |-> c.location]

\* obj.hide_set(h) for every object of `names`
HideSet(sc, names, h) ==
    [n \in DOMAIN sc |-> IF n \in names THEN [sc[n] EXCEPT !.hidden = h] ELSE sc[n]]

Visible(sc) == {n \in DOMAIN sc : ~sc[n].hidden}

Failures == Cardinality({i \in 1..Len(steps) : ~steps[i].ok})

\* range(TILES_Y) x range(TILES_X), rows outermost
GridIndices ==
    [k \in 1..(cfg.TILES_Y * cfg.TILES_X) |->
        <<(k - 1) \div cfg.TILES_X, (k - 1) % cfg.TILES_X>>]

-----------------------------------------------------------------------------
(* 2) MAIN *)

ensure_dirs_unchecked ==
    /\ pc = "ensure_dirs"
    /\ fs' = [fs EXCEPT !.output_dir = TRUE]
    /\ pc' = "clear_scene"
    /\ UNCHANGED <<backend, cfg, fp, mesh, loop, scene, tiles, cur, exports, stdout, raised,
                   steps, profiled, probe>>

\* main() line 200: mkdir OUTPUT_DIR, then raise unless the city mesh exists.
ensure_dirs ==
    /\ pc = "ensure_dirs"
    /\ fs' = [fs EXCEPT !.output_dir = TRUE]
    /\ IF ~fs.city_mesh
       THEN pc' = "raised" /\ raised' = Some("FileNotFoundError")
       ELSE pc' = "clear_scene" /\ UNCHANGED raised
    /\ UNCHANGED <<backend, cfg, fp, mesh, loop, scene, tiles, cur, exports, stdout,
                   steps, profiled, probe>>

clear_scene ==
    /\ pc = "clear_scene"
    /\ scene' = [n \in {} |-> n]
    /\ pc' = "import_city_mesh"
    /\ UNCHANGED <<backend, cfg, fp, mesh, fs, loop, tiles, cur, exports, stdout, raised,
                   steps, profiled, probe>>

\* The vertices of a mesh file as the importer lists them: one fixed order.
RECURSIVE VertexList(_)
VertexList(S) ==
    IF S = {} THEN <<>>
    ELSE LET v == CHOOSE w \in S : TRUE IN <<v>> \o VertexList(S \ {v})

import_city_mesh ==
    /\ pc = "import_city_mesh"
    /\ scene' = scene @@ (CityName :> [kind |-> "city", hidden |-> FALSE,
                                       verts |-> VertexList(mesh), normals |-> "imported"])
    /\ pc' = "cleanup_normals"
    /\ UNCHANGED <<backend, cfg, fp, mesh, fs, loop, tiles, cur, exports, stdout, raised,
                   steps, profiled, probe>>

\* cleanup_normals, then lines 207-214: tiles = [] and the indices to process.
\* remove_doubles merges vertices closer than 0.0001; the vertices of the
\* meshes of this model are further apart and stay as imported.
cleanup_normals ==
    /\ pc = "cleanup_normals"
    /\ scene' = [scene EXCEPT ![CityName].normals = "consistent_flipped"]
    /\ tiles' = <<>>
    /\ loop' = IF cfg.SINGLE_TILE_MODE
               THEN << <<cfg.SINGLE_TILE_ROW, cfg.SINGLE_TILE_COL>> >>
               ELSE GridIndices
    /\ pc' = "process"
    /\ UNCHANGED <<backend, cfg, fp, mesh, fs, cur, exports, stdout, raised, steps, profiled, probe>>

TileObject_uncentred(row, col, min_z, cutters) ==
    LET x == col * cfg.TILE_SIZE + Half(cfg.TILE_SIZE)
        y == row * cfg.TILE_SIZE + Half(cfg.TILE_SIZE)
        cube_bottom == quantized_bottom(min_z)
        cube_top == min_z + Half(cfg.TILE_SIZE)
        cube_height == cube_top - cube_bottom
    IN  [kind |-> "tile", hidden |-> FALSE, row |-> row, col |-> col,
         size |-> cfg.TILE_SIZE, location |-> <<x, y, cube_bottom>>,
         scale_z |-> <<cube_height, cfg.TILE_SIZE>>,
         cube_bottom |-> cube_bottom, cube_top |-> cube_top,
         modifiers |-> <<Boolean(DifferenceName, CityName)>>
                       \o [k \in 1..Len(cutters) |-> Boolean(cutters[k].modifier, cutters[k].name)],
         applied |-> <<>>]

TileObject_shared(row, col, min_z, cutters) ==
    LET x == col * cfg.TILE_SIZE + Half(cfg.TILE_SIZE)
        y == row * cfg.TILE_SIZE + Half(cfg.TILE_SIZE)
        lowest == MinOf({min_z} \cup {profiled[k].min_z[1] :
                                         k \in {h \in 1..Len(profiled) : profiled[h].min_z # None}})
        cube_bottom == quantized_bottom(lowest)
        cube_top == min_z + Half(cfg.TILE_SIZE)
        cube_height == cube_top - cube_bottom
        z == cube_bottom + Half(cube_height)
    IN  [kind |-> "tile", hidden |-> FALSE, row |-> row, col |-> col,
         size |-> cfg.TILE_SIZE, location |-> <<x, y, z>>,
         scale_z |-> <<cube_height, cfg.TILE_SIZE>>,
         cube_bottom |-> cube_bottom, cube_top |-> cube_top,
         modifiers |-> <<Boolean(DifferenceName, CityName)>>
                       \o [k \in 1..Len(cutters) |-> Boolean(cutters[k].modifier, cutters[k].name)],
         applied |-> <<>>]

\* The cube process_tile creates for a populated tile, with its nine modifiers.
TileObject(row, col, min_z, cutters) ==
    LET x == col * cfg.TILE_SIZE + Half(cfg.TILE_SIZE)
        y == row * cfg.TILE_SIZE + Half(cfg.TILE_SIZE)
        cube_bottom == quantized_bottom(min_z)
        cube_top == min_z + Half(cfg.TILE_SIZE)
        cube_height == cube_top - cube_bottom
        z == cube_bottom + Half(cube_height)
    IN  [kind |-> "tile", hidden |-> FALSE, row |-> row, col |-> col,
         size |-> cfg.TILE_SIZE, location |-> <<x, y, z>>,
         scale_z |-> <<cube_height, cfg.TILE_SIZE>>,
         cube_bottom |-> cube_bottom, cube_top |-> cube_top,
         modifiers |-> <<Boolean(DifferenceName, CityName)>>
                       \o [k \in 1..Len(cutters) |-> Boolean(cutters[k].modifier, cutters[k].name)],
         applied |-> <<>>]

TileCutters(row, col, min_z) ==
    LET x == col * cfg.TILE_SIZE + Half(cfg.TILE_SIZE)
        y == row * cfg.TILE_SIZE + Half(cfg.TILE_SIZE)
        cube_bottom == quantized_bottom(min_z)
        cube_top == min_z + Half(cfg.TILE_SIZE)
        cube_height == cube_top - cube_bottom
        z == cube_bottom + Half(cube_height)
    IN  add_corner_magnets(row, col, x, y, z, cube_height)

process_tile_noskip(row, col) ==
    LET found == min_z_in_tile(scene[CityName].verts, row, col)
        min_z == IF found = None THEN 0 ELSE found[1]
        cutters == TileCutters(row, col, min_z)
        cube == TileObject(row, col, min_z, cutters)
    IN  /\ profiled' = Append(profiled, [row |-> row, col |-> col, min_z |-> found])
        /\ scene' = HideSet(scene, {CityName}, TRUE)
                      @@ (TileName(row, col) :> cube)
                      @@ [n \in {cutters[k].name : k \in 1..8} |->
                            CutterObject(CHOOSE c \in {cutters[k] : k \in 1..8} : c.name = n)]
        /\ tiles' = Append(tiles, TileName(row, col))

process_tile(row, col) ==
    LET found == min_z_in_tile(scene[CityName].verts, row, col)
    IN  /\ profiled' = Append(profiled, [row |-> row, col |-> col, min_z |-> found])
        /\ IF found = None
           THEN UNCHANGED <<scene, tiles>>
           ELSE LET min_z == found[1]
                    cutters == TileCutters(row, col, min_z)
                    cube == TileObject(row, col, min_z, cutters)
                IN  /\ scene' = HideSet(scene, {CityName}, TRUE)
                                  @@ (TileName(row, col) :> cube)
                                  @@ [n \in {cutters[k].name : k \in 1..8} |->
                                        CutterObject(CHOOSE c \in {cutters[k] : k \in 1..8} : c.name = n)]
                    /\ tiles' = Append(tiles, TileName(row, col))

\* One iteration of lines 209-214.
ProcessTile ==
    /\ pc = "process"
    /\ loop # <<>>
    /\ process_tile(Head(loop)[1], Head(loop)[2])
    /\ loop' = Tail(loop)
    /\ UNCHANGED <<backend, cfg, fp, mesh, fs, pc, cur, exports, stdout, raised, steps, probe>>

FirstNames_magnet == <<ModifierName("MagnetHole", 0)>>

FirstNames == <<DifferenceName>>      \* apply_modifiers(t, names=["Difference"])

\* Lines 216-219, and entry into `for t in tiles`.
HideAll ==
    /\ pc = "process"
    /\ loop = <<>>
    /\ scene' = HideSet(scene, {tiles[i] : i \in 1..Len(tiles)} \cup {CityName}, TRUE)
    /\ IF tiles = <<>>
       THEN pc' = "summary" /\ UNCHANGED cur
       ELSE pc' = "apply" /\ cur' = [i |-> 1, stage |-> "difference", names |-> FirstNames]
    /\ UNCHANGED <<backend, cfg, fp, mesh, fs, loop, tiles, exports, stdout, raised, steps, profiled, probe>>

HasModifier(obj, name) == \E k \in 1..Len(obj.modifiers) : obj.modifiers[k].name = name

\* The modifier stack without its first modifier called `name`.
WithoutModifier(mods, name) ==
    LET k == CHOOSE j \in 1..Len(mods) :
                 mods[j].name = name /\ \A h \in 1..(j - 1) : mods[h].name # name
    IN  SubSeq(mods, 1, k - 1) \o SubSeq(mods, k + 1, Len(mods))

\* except RuntimeError: pass
modifier_apply_failed_uncaught(t, name) ==
    /\ steps' = Append(steps, [tile |-> t, modifier |-> name, ok |-> FALSE])
    /\ raised' = Some("RuntimeError")
    /\ pc' = "raised"
    /\ UNCHANGED <<scene, stdout, cur>>

\* modifier_apply raised RuntimeError; apply_modifiers catches it and goes on
\* to the next name.  Nothing is printed and the object is left as it was.
modifier_apply_failed(t, name) ==
    /\ steps' = Append(steps, [tile |-> t, modifier |-> name, ok |-> FALSE])
    /\ cur' = [cur EXCEPT !.names = Tail(@)]
    /\ UNCHANGED <<scene, stdout, raised, pc>>

modifier_applied_consuming(t, name) ==
    /\ scene' = [scene EXCEPT ![t].modifiers = WithoutModifier(@, name),
                              ![t].applied = Append(@, name),
                              ![CityName].verts = <<>>]
    /\ steps' = Append(steps, [tile |-> t, modifier |-> name, ok |-> TRUE])
    /\ cur' = [cur EXCEPT !.names = Tail(@)]
    /\ UNCHANGED <<stdout, raised, pc>>

\* modifier_apply succeeded: the cutter is subtracted from the mesh of the
\* object and the modifier leaves the stack.
modifier_applied(t, name) ==
    /\ scene' = [scene EXCEPT ![t].modifiers = WithoutModifier(@, name),
                              ![t].applied = Append(@, name)]
    /\ steps' = Append(steps, [tile |-> t, modifier |-> name, ok |-> TRUE])
    /\ cur' = [cur EXCEPT !.names = Tail(@)]
    /\ UNCHANGED <<stdout, raised, pc>>

\* One iteration of `for name in names` of apply_modifiers, the boolean
\* succeeding.
ModifierApply ==
    /\ pc = "apply"
    /\ cur.names # <<>>
    /\ HasModifier(scene[tiles[cur.i]], Head(cur.names))
    /\ modifier_applied(tiles[cur.i], Head(cur.names))
    /\ UNCHANGED <<backend, cfg, fp, mesh, fs, loop, tiles, exports, profiled, probe>>

\* One iteration of `for name in names` of apply_modifiers, the operator
\* raising RuntimeError (the boolean fails, or no such modifier is left).
ModifierApplyFails ==
    /\ pc = "apply"
    /\ cur.names # <<>>
    /\ Failures < MaxFailures \/ ~HasModifier(scene[tiles[cur.i]], Head(cur.names))
    /\ modifier_apply_failed(tiles[cur.i], Head(cur.names))
    /\ UNCHANGED <<backend, cfg, fp, mesh, fs, loop, tiles, exports, profiled, probe>>

magnet_mods_grouped(obj) ==
    LET named(base) == SelectSeq(obj.modifiers, LAMBDA m : m.name # <<>> /\ m.name[1] = base)
        all == named("MagnetHole") \o named("MagnetCountersink")
    IN  [k \in 1..Len(all) |-> all[k].name]

magnet_mods_none(obj) == <<>>

\* Line 226: the names of the magnet modifiers, in stack order.
magnet_mods(obj) ==
    LET sel == SelectSeq(obj.modifiers, LAMBDA m : IsMagnetMod(m.name))
    IN  [k \in 1..Len(sel) |-> sel[k].name]

\* Lines 225-227: the first apply_modifiers call is over, the second begins.
CollectMagnetMods ==
    /\ pc = "apply"
    /\ cur.names = <<>>
    /\ cur.stage = "difference"
    /\ cur' = [cur EXCEPT !.stage = "magnets", !.names = magnet_mods(scene[tiles[cur.i]])]
    /\ UNCHANGED <<backend, cfg, fp, mesh, fs, pc, loop, scene, tiles, exports, stdout, raised,
                   steps, profiled, probe>>

ParsedIndex_swapped(name) ==
    LET parts == py_split(name, "_")
    IN  IF Len(parts) < 3 THEN [error |-> "IndexError"]
        ELSE LET row == py_int(parts[2])
                 col == py_int(parts[3])
             IN  IF row = None \/ col = None THEN [error |-> "ValueError"]
                 ELSE [error |-> "", row |-> row[1], col |-> col[1]]

\* Line 229: row=int(t.name.split("_")[2]), col=int(t.name.split("_")[1])
ParsedIndex(name) ==
    LET parts == py_split(name, "_")
    IN  IF Len(parts) < 3 THEN [error |-> "IndexError"]
        ELSE LET row == py_int(parts[3])
                 col == py_int(parts[2])
             IN  IF row = None \/ col = None THEN [error |-> "ValueError"]
                 ELSE [error |-> "", row |-> row[1], col |-> col[1]]

\* export_tile: show the object, export the scene to `out`, hide it again.
export_tile(t, row, col) ==
    LET shown == HideSet(scene, {t}, FALSE)
        out == OutPath(row, col)
    IN  /\ exports' = Append(exports, [path |-> out, tile |-> t, row |-> row, col |-> col,
                                       applied |-> scene[t].applied,
                                       modifiers |-> scene[t].modifiers,
                                       visible |-> Visible(shown)])
        /\ scene' = HideSet(shown, {t}, TRUE)
        /\ stdout' = Append(stdout, [line |-> "Exported", out |-> out])

\* Lines 229-230, and the step to the next tile of `for t in tiles`.
ExportTile ==
    /\ pc = "apply"
    /\ cur.names = <<>>
    /\ cur.stage = "magnets"
    /\ LET t == tiles[cur.i]
           idx == ParsedIndex(t)
       IN  IF idx.error # ""
           THEN /\ raised' = Some(idx.error)
                /\ pc' = "raised"
                /\ UNCHANGED <<scene, exports, stdout, cur>>
           ELSE /\ export_tile(t, idx.row, idx.col)
                /\ UNCHANGED raised
                /\ IF cur.i < Len(tiles)
                   THEN /\ cur' = [i |-> cur.i + 1, stage |-> "difference", names |-> FirstNames]
                        /\ pc' = "apply"
                   ELSE /\ cur' = [i |-> cur.i + 1, stage |-> "over", names |-> <<>>]
                        /\ pc' = "summary"
    /\ UNCHANGED <<backend, cfg, fp, mesh, fs, loop, tiles, steps, profiled, probe>>

\* Lines 232-233.
Summary ==
    /\ pc = "summary"
    /\ LET count == IF cfg.SINGLE_TILE_MODE THEN 1 ELSE cfg.TILES_X * cfg.TILES_Y
       IN  stdout' = Append(stdout, [line |-> "Created", count |-> count])
    /\ pc' = "done"
    /\ UNCHANGED <<backend, cfg, fp, mesh, fs, loop, scene, tiles, cur, exports, raised,
                   steps, profiled, probe>>

-----------------------------------------------------------------------------
(* Runs of the script *)

\* Vertices a city mesh is made of: inside tile (1,2), inside tile (0,0), on
\* the edge shared by tiles (0,0) and (0,1), outside the grid, a second and
\* lower one inside tile (1,2), inside tile (4,1).
Candidates ==
    {[x |-> 5000000, y |-> 3000000, z |-> 1370000],
     [x |-> 1000000, y |-> 1000000, z |-> 1250000],
     [x |-> 2000000, y |-> 500000,  z |-> 0 - 500000],
     [x |-> 7000000, y |-> 3000000, z |-> 3000000],
     [x |-> 4500000, y |-> 2500000, z |-> 600000],
     [x |-> 3000000, y |-> 9000000, z |-> 8450000]}

Meshes == {m \in SUBSET Candidates : Cardinality(m) <= MaxVerts}

FullGrid == [DefaultConfig EXCEPT !.SINGLE_TILE_MODE = FALSE]

\* The shipped configuration (single tile (1,2)), a single tile selected one
\* column past the grid, the full grid, the full grid with a base depth that
\* lifts the underside above the top of the block, and the full grid without
\* quantization and with a perimeter offset too small.
PipelineConfigs ==
    {DefaultConfig,
     [DefaultConfig EXCEPT !.SINGLE_TILE_COL = TILES_X],
     FullGrid,
     [FullGrid EXCEPT !.MIN_MODEL_BASE_DEPTH = 0 - 1500000],
     [FullGrid EXCEPT !.QUANTIZE_FILL = FALSE, !.MAGNET_PERIM_OFFSET_MM = 1]}

NoProbe == [fn |-> "none", arg |-> <<>>, result |-> None]

\* No request was served: the tables as Base.metadata.create_all leaves them.
NoResponse == [op |-> "", status |-> 0, user |-> None, listing |-> None]

NoBackend ==
    /\ users = {}
    /\ projects = {}
    /\ user_projects = {}
    /\ uploaded_files = {}
    /\ assets = {}
    /\ tokens = {}
    /\ born = 0
    /\ response = NoResponse
NotStarted == [i |-> 0, stage |-> "none", names |-> <<>>]

Init ==
    /\ cfg \in PipelineConfigs
    /\ fp = Exact
    /\ fs \in [city_mesh : BOOLEAN, output_dir : BOOLEAN]
    /\ mesh \in IF fs.city_mesh THEN Meshes ELSE {{}}
    /\ pc = "ensure_dirs"
    /\ loop = <<>>
    /\ scene = StartupScene
    /\ tiles = <<>>
    /\ cur = NotStarted
    /\ exports = <<>>
    /\ stdout = <<>>
    /\ raised = None
    /\ steps = <<>>
    /\ profiled = <<>>
    /\ probe = NoProbe
    /\ NoBackend

Next ==
    \/ ensure_dirs
    \/ clear_scene
    \/ import_city_mesh
    \/ cleanup_normals
    \/ ProcessTile
    \/ HideAll
    \/ ModifierApply
    \/ ModifierApplyFails
    \/ CollectMagnetMods
    \/ ExportTile
    \/ Summary

Spec == Init /\ [][Next]_vars

-----------------------------------------------------------------------------
(* Single calls of the pure functions, on inputs drawn from bounded sets *)

Idle ==
    /\ mesh = {}
    /\ fs = [city_mesh |-> FALSE, output_dir |-> FALSE]
    /\ pc = "idle"
    /\ loop = <<>>
    /\ scene = StartupScene
    /\ tiles = <<>>
    /\ cur = NotStarted
    /\ exports = <<>>
    /\ stdout = <<>>
    /\ raised = None
    /\ steps = <<>>
    /\ profiled = <<>>
    /\ NoBackend

MinZs == {8450000, 1370000, 1250000, 50000, 0 - 500000}

QuantizerConfigs ==
    {[DefaultConfig EXCEPT !.QUANTIZE_ANCHOR_Z = a, !.EPS = e, !.FILL_LAYER_THICKNESS = st] :
        a \in {0, 600000, 0 - 130000}, e \in {0, 10, 20}, st \in {200000, 300000}}
    \cup {[DefaultConfig EXCEPT !.QUANTIZE_FILL = FALSE]}

InitQuantizer ==
    /\ cfg \in QuantizerConfigs
    /\ fp \in [FpSites -> RoundErrs]
    /\ probe \in [fn : {"quantized_bottom"}, arg : MinZs, result : {None}]
    /\ Idle

CallQuantizedBottom ==
    /\ probe.fn = "quantized_bottom"
    /\ probe.result = None
    /\ probe' = [probe EXCEPT !.result = Some(quantized_bottom(probe.arg))]
    /\ UNCHANGED <<backend, cfg, fp, mesh, fs, pc, loop, scene, tiles, cur, exports, stdout,
                   raised, steps, profiled>>

NextQuantizer == CallQuantizedBottom

SpecQuantizer == InitQuantizer /\ [][NextQuantizer]_vars

PlacerConfigs ==
    {[DefaultConfig EXCEPT !.MAGNET_PERIM_OFFSET_MM = o, !.MAGNET_RADIUS = r,
                           !.MAGNET_SAFETY = m, !.COUNTERSINK_SHOULDER = sh,
                           !.MAGNET_HEIGHT = mh] :
        o \in {0 - 2, 0, 1, 4, 6, 8, 198}, r \in {50000, 30000},
        m \in {10000, 0, 30000}, sh \in {10000, 48000}, mh \in {20000, 40000}}

\* Arguments as process_tile passes them: the centre of the cube of tile
\* (row, col), and its height.
PlacerArgs ==
    {[row |-> i[1], col |-> i[2],
      x |-> i[2] * TILE_SIZE + Half(TILE_SIZE), y |-> i[1] * TILE_SIZE + Half(TILE_SIZE),
      z |-> zh[1], cube_height |-> zh[2]] :
        i \in {<<1, 2>>, <<0, 0>>}, zh \in {<<1785000, 1170020>>, <<0 - 100000, 2200000>>}}

InitPlacer ==
    /\ cfg \in PlacerConfigs
    /\ fp = Exact
    /\ probe \in [fn : {"add_corner_magnets"}, arg : PlacerArgs, result : {None}]
    /\ Idle

CallAddCornerMagnets ==
    /\ probe.fn = "add_corner_magnets"
    /\ probe.result = None
    /\ probe' = [probe EXCEPT !.result =
                    Some(add_corner_magnets(probe.arg.row, probe.arg.col, probe.arg.x,
                                            probe.arg.y, probe.arg.z, probe.arg.cube_height))]
    /\ UNCHANGED <<backend, cfg, fp, mesh, fs, pc, loop, scene, tiles, cur, exports, stdout,
                   raised, steps, profiled>>

NextPlacer == CallAddCornerMagnets

SpecPlacer == InitPlacer /\ [][NextPlacer]_vars

\* Vertex lists: the vertices of a mesh in every order.
RECURSIVE Orderings(_)
Orderings(S) ==
    IF S = {} THEN {<<>>}
    ELSE UNION {{<<v>> \o rest : rest \in Orderings(S \ {v})} : v \in S}

\* Vertices on the grid lines: on the corner shared by tiles (0,0), (0,1),
\* (1,0) and (1,1), on the west edge of the grid, on the far corner of the
\* grid, and one tick east of the grid.
GridLineCandidates ==
    {[x |-> 2000000, y |-> 2000000, z |-> 700000],
     [x |-> 0,       y |-> 1000000, z |-> 900000],
     [x |-> 6000000, y |-> 10000000, z |-> 1100000],
     [x |-> 6000001, y |-> 3000000, z |-> 400000]}

ProfilerMeshes ==
    {m \in SUBSET (Candidates \cup GridLineCandidates) : Cardinality(m) <= MaxVerts}

ProfilerArgs ==
    [verts : UNION {Orderings(m) : m \in ProfilerMeshes},
     index : {<<1, 2>>, <<0, 0>>, <<0, 1>>, <<1, 1>>, <<4, 1>>, <<4, 2>>}]

InitProfiler ==
    /\ cfg = FullGrid
    /\ fp = Exact
    /\ probe \in [fn : {"min_z_in_tile"}, arg : ProfilerArgs, result : {None}]
    /\ Idle

CallMinZInTile ==
    /\ probe.fn = "min_z_in_tile"
    /\ probe.result = None
    /\ probe' = [probe EXCEPT !.result =
                    Some(min_z_in_tile(probe.arg.verts, probe.arg.index[1], probe.arg.index[2]))]
    /\ UNCHANGED <<backend, cfg, fp, mesh, fs, pc, loop, scene, tiles, cur, exports, stdout,
                   raised, steps, profiled>>

NextProfiler == CallMinZInTile

SpecProfiler == InitProfiler /\ [][NextProfiler]_vars

-----------------------------------------------------------------------------
(* Runs of the script with the indices of lines 212-214 taken in any order *)

\* Vertices inside tile (0,0), on the edge shared by tiles (0,0) and (0,1),
\* and inside tile (1,1).
OrderCandidates ==
    {[x |-> 1000000, y |-> 1000000, z |-> 1250000],
     [x |-> 2000000, y |-> 500000,  z |-> 0 - 500000],
     [x |-> 3000000, y |-> 3000000, z |-> 600000]}

OrderMeshes == {m \in SUBSET OrderCandidates : Cardinality(m) <= MaxVerts}

\* A grid of two by two tiles.
OrderConfigs == {[FullGrid EXCEPT !.TILES_X = 2, !.TILES_Y = 2]}

InitAnyOrder ==
    /\ cfg \in OrderConfigs
    /\ fp = Exact
    /\ fs \in [city_mesh : {TRUE}, output_dir : BOOLEAN]
    /\ mesh \in OrderMeshes
    /\ pc = "ensure_dirs"
    /\ loop = <<>>
    /\ scene = StartupScene
    /\ tiles = <<>>
    /\ cur = NotStarted
    /\ exports = <<>>
    /\ stdout = <<>>
    /\ raised = None
    /\ steps = <<>>
    /\ profiled = <<>>
    /\ probe = NoProbe
    /\ NoBackend

\* One iteration of lines 212-214 with the loops rearranged: any index not
\* yet processed comes next.
ProcessAnyTile ==
    /\ pc = "process"
    /\ \E k \in 1..Len(loop) :
          /\ process_tile(loop[k][1], loop[k][2])
          /\ loop' = SubSeq(loop, 1, k - 1) \o SubSeq(loop, k + 1, Len(loop))
    /\ UNCHANGED <<backend, cfg, fp, mesh, fs, pc, cur, exports, stdout, raised, steps, probe>>

NextAnyOrder ==
    \/ ensure_dirs
    \/ clear_scene
    \/ import_city_mesh
    \/ cleanup_normals
    \/ ProcessAnyTile
    \/ HideAll
    \/ ModifierApply
    \/ ModifierApplyFails
    \/ CollectMagnetMods
    \/ ExportTile
    \/ Summary

SpecAnyOrder == InitAnyOrder /\ [][NextAnyOrder]_vars

-----------------------------------------------------------------------------
(* backend/app.py: tables, queries, tokens *)

MaxAccounts == 3     \* at most this many user rows are ever inserted
MaxProjects == 1     \* at most this many projects exist at a time
MaxUploads == 1      \* at most this many files are stored at a time

Usernames == {"vasnas", "bob"}
Passwords == {"pw1", "pw2"}
ProjectNames == {"plaza", "harbour"}
UserIds == 1..MaxAccounts
ProjectIds == 1..MaxProjects
FileIds == 1..MaxUploads

\* query.first(): a row, or None
first(rows) ==
    IF rows = {} THEN None
    ELSE Some(CHOOSE r \in rows : \A q \in rows : r.id <= q.id)

\* Integer primary key of a new row: SQLite gives the largest id plus one.
NextId(rows) ==
    IF rows = {} THEN 1
    ELSE (CHOOSE r \in rows : \A q \in rows : q.id <= r.id).id + 1

UserByName(username) == first({u \in users : u.username = username})
UserById(user_id) == first({u \in users : u.id = user_id})
ProjectById(project_id) == first({p \in projects : p.id = project_id})
FileById(file_id) == first({f \in uploaded_files : f.id = file_id})

\* users.username is unique and users.id is the primary key: commit raises
\* IntegrityError for a row that repeats either.
IntegrityError(row) == \E u \in users : u.username = row.username \/ u.id = row.id

\* user.assigned_projects
assigned_projects(user) == {p \in projects : <<user.id, p.id>> \in user_projects}

Ids(rows) == {r.id : r \in rows}

get_password_hash(password) == <<"bcrypt", password>>
verify_password(plain_password, hashed_password) == hashed_password = <<"bcrypt", plain_password>>

\* The token carries the username only; `account` records whom it was issued to.
create_access_token(user) == [sub |-> user.username, account |-> user.account]

\* The cookie of a request: none, or a token issued by login.  A token that
\* jwt.decode rejects (expired, forged) makes get_current_user return None as
\* the request without cookie does.
Cookies == {None} \cup {Some(t) : t \in tokens}

get_current_user(cookie) ==
    IF cookie = None THEN None ELSE UserByName(cookie[1].sub)

\* require_admin: the user, or None where it raises HTTPException(403)
require_admin(cookie) ==
    LET user == get_current_user(cookie)
    IN  IF user = None \/ user[1].is_admin # 1 THEN None ELSE user

\* What is kept of a request or command and its answer: the handler, the
\* status code and, where the answer lists projects, the user it is for and
\* the ids listed.
Reply(op, status, user, listing) ==
    response' = [op |-> op, status |-> status,
                 user |-> IF user = None THEN None
                          ELSE Some([id |-> user[1].id, is_admin |-> user[1].is_admin]),
                 listing |-> listing]

-----------------------------------------------------------------------------
(* backend/app.py: sessions and user management *)

login(username, password) ==
    LET user == UserByName(username)
    IN  /\ IF user = None \/ ~verify_password(password, user[1].hashed_password)
           THEN /\ Reply("login", 401, None, None)
                /\ UNCHANGED tokens
           ELSE /\ tokens' = tokens \cup {create_access_token(user[1])}
                /\ Reply("login", 303, None, None)
        /\ UNCHANGED <<users, projects, user_projects, uploaded_files, assets, born>>
        /\ UNCHANGED pipeline

create_user(cookie, username, password, is_admin) ==
    LET admin == require_admin(cookie)
        existing_user == UserByName(username)
        new_user == [id |-> NextId(users), username |-> username,
                     hashed_password |-> get_password_hash(password),
                     is_admin |-> IF is_admin THEN 1 ELSE 0, account |-> born + 1]
    IN  /\ IF admin = None
           THEN /\ Reply("create_user", 403, None, None)
                /\ UNCHANGED <<users, born>>
           ELSE IF existing_user # None
           THEN /\ Reply("create_user", 400, None, None)
                /\ UNCHANGED <<users, born>>
           ELSE IF IntegrityError(new_user)
           THEN /\ Reply("create_user", 500, None, None)
                /\ UNCHANGED <<users, born>>
           ELSE /\ born < MaxAccounts
                /\ users' = users \cup {new_user}
                /\ born' = born + 1
                /\ Reply("create_user", 200, None, None)
        /\ UNCHANGED <<projects, user_projects, uploaded_files, assets, tokens>>
        /\ UNCHANGED pipeline

\* db.delete(user): the row, and with it its rows of user_projects.
DeleteUserRow(user) ==
    /\ users' = users \ {user}
    /\ user_projects' = {a \in user_projects : a[1] # user.id}

delete_user_unguarded(cookie, user_id) ==
    LET admin == require_admin(cookie)
        user == UserById(user_id)
    IN  /\ IF admin = None
           THEN /\ Reply("delete_user", 403, None, None)
                /\ UNCHANGED <<users, user_projects>>
           ELSE IF user = None
           THEN /\ Reply("delete_user", 404, None, None)
                /\ UNCHANGED <<users, user_projects>>
           ELSE /\ DeleteUserRow(user[1])
                /\ Reply("delete_user", 200, None, None)
        /\ UNCHANGED <<projects, uploaded_files, assets, tokens, born>>
        /\ UNCHANGED pipeline

delete_user(cookie, user_id) ==
    LET admin == require_admin(cookie)
        user == UserById(user_id)
    IN  /\ IF admin = None
           THEN /\ Reply("delete_user", 403, None, None)
                /\ UNCHANGED <<users, user_projects>>
           ELSE IF user = None
           THEN /\ Reply("delete_user", 404, None, None)
                /\ UNCHANGED <<users, user_projects>>
           ELSE IF user[1].username = "vasnas"
           THEN /\ Reply("delete_user", 400, None, None)
                /\ UNCHANGED <<users, user_projects>>
           ELSE /\ DeleteUserRow(user[1])
                /\ Reply("delete_user", 200, None, None)
        /\ UNCHANGED <<projects, uploaded_files, assets, tokens, born>>
        /\ UNCHANGED pipeline

change_password(cookie, user_id, password) ==
    LET admin == require_admin(cookie)
        user == UserById(user_id)
    IN  /\ IF admin = None
           THEN /\ Reply("change_password", 403, None, None)
                /\ UNCHANGED users
           ELSE IF user = None
           THEN /\ Reply("change_password", 404, None, None)
                /\ UNCHANGED users
           ELSE /\ users' = (users \ {user[1]}) \cup
                        {[user[1] EXCEPT !.hashed_password = get_password_hash(password)]}
                /\ Reply("change_password", 200, None, None)
        /\ UNCHANGED <<projects, user_projects, uploaded_files, assets, tokens, born>>
        /\ UNCHANGED pipeline

\* project_ids is the comma-separated list of the form, here the set of its ids.
assign_projects(cookie, user_id, project_ids) ==
    LET admin == require_admin(cookie)
        user == UserById(user_id)
    IN  /\ IF admin = None
           THEN /\ Reply("assign_projects", 403, None, None)
                /\ UNCHANGED user_projects
           ELSE IF user = None
           THEN /\ Reply("assign_projects", 404, None, None)
                /\ UNCHANGED user_projects
           ELSE /\ user_projects' = {a \in user_projects : a[1] # user_id} \cup
                        {<<user_id, p.id>> : p \in {q \in projects : q.id \in project_ids}}
                /\ Reply("assign_projects", 200, None, None)
        /\ UNCHANGED <<users, projects, uploaded_files, assets, tokens, born>>
        /\ UNCHANGED pipeline

-----------------------------------------------------------------------------
(* backend/app.py: projects and files *)

projects_page(cookie) ==
    LET user == get_current_user(cookie)
    IN  /\ IF user = None
           THEN Reply("projects_page", 302, None, None)
           ELSE Reply("projects_page", 200, user, Some(Ids(IF user[1].is_admin = 1 THEN projects
                                          ELSE assigned_projects(user[1]))))
        /\ UNCHANGED <<users, projects, user_projects, uploaded_files, assets, tokens, born>>
        /\ UNCHANGED pipeline

projects_table(cookie) ==
    LET user == get_current_user(cookie)
    IN  /\ IF user = None
           THEN Reply("projects_table", 401, None, None)
           ELSE Reply("projects_table", 200, user, Some(Ids(IF user[1].is_admin = 1 THEN projects
                                          ELSE assigned_projects(user[1]))))
        /\ UNCHANGED <<users, projects, user_projects, uploaded_files, assets, tokens, born>>
        /\ UNCHANGED pipeline

create_project(cookie, name) ==
    LET user == get_current_user(cookie)
        new_project == [id |-> NextId(projects), name |-> name,
                        created_by |-> user[1].username, creator |-> user[1].account]
    IN  /\ IF user = None
           THEN /\ Reply("create_project", 401, None, None)
                /\ UNCHANGED projects
           ELSE /\ Cardinality(projects) < MaxProjects
                /\ projects' = projects \cup {new_project}
                /\ Reply("create_project", 200, user, Some(Ids(projects')))
        /\ UNCHANGED <<users, user_projects, uploaded_files, assets, tokens, born>>
        /\ UNCHANGED pipeline

\* db.delete(project): the row, its rows of user_projects and, by the cascade
\* of Project.files, its rows of uploaded_files; the stored files stay.
DeleteProjectRow(project) ==
    /\ projects' = projects \ {project}
    /\ user_projects' = {a \in user_projects : a[2] # project.id}
    /\ uploaded_files' = {f \in uploaded_files : f.project_id # project.id}

delete_project(cookie, project_id) ==
    LET user == get_current_user(cookie)
        project == ProjectById(project_id)
    IN  /\ IF user = None
           THEN /\ Reply("delete_project", 401, None, None)
                /\ UNCHANGED <<projects, user_projects, uploaded_files>>
           ELSE IF project = None
           THEN /\ Reply("delete_project", 404, None, None)
                /\ UNCHANGED <<projects, user_projects, uploaded_files>>
           ELSE IF user[1].is_admin # 1 /\ project[1].created_by # user[1].username
           THEN /\ Reply("delete_project", 403, None, None)
                /\ UNCHANGED <<projects, user_projects, uploaded_files>>
           ELSE /\ DeleteProjectRow(project[1])
                /\ Reply("delete_project", 200, user, Some(Ids(projects')))
        /\ UNCHANGED <<users, assets, tokens, born>>
        /\ UNCHANGED pipeline

update_project(cookie, project_id, name) ==
    LET user == get_current_user(cookie)
        project == ProjectById(project_id)
    IN  /\ IF user = None
           THEN /\ Reply("update_project", 401, None, None)
                /\ UNCHANGED projects
           ELSE IF project = None
           THEN /\ Reply("update_project", 404, None, None)
                /\ UNCHANGED projects
           ELSE IF user[1].is_admin # 1 /\ project[1].created_by # user[1].username
           THEN /\ Reply("update_project", 403, None, None)
                /\ UNCHANGED projects
           ELSE /\ projects' = (projects \ {project[1]}) \cup {[project[1] EXCEPT !.name = name]}
                /\ Reply("update_project", 200, None, None)
        /\ UNCHANGED <<users, user_projects, uploaded_files, assets, tokens, born>>
        /\ UNCHANGED pipeline

\* static/assets/<uuid4><ext>: a path no stored file has
NewPath == CHOOSE n \in 1..(Cardinality(assets) + 1) : n \notin assets

\* accepted: validate_image_placement finds the image inside the project and
\* the extension is an allowed one; stored: copying the file and inserting
\* the row raise no exception.
upload_file(cookie, project_id, accepted, stored) ==
    LET user == get_current_user(cookie)
        project == ProjectById(project_id)
        file_path == NewPath
        uploaded_file == [id |-> NextId(uploaded_files), file_path |-> file_path,
                          uploaded_by |-> user[1].username, project_id |-> project_id]
    IN  /\ IF user = None
           THEN /\ Reply("upload_file", 401, None, None)
                /\ UNCHANGED <<uploaded_files, assets>>
           ELSE IF project = None
           THEN /\ Reply("upload_file", 404, None, None)
                /\ UNCHANGED <<uploaded_files, assets>>
           ELSE IF user[1].is_admin # 1 /\ project[1].created_by # user[1].username
           THEN /\ Reply("upload_file", 403, None, None)
                /\ UNCHANGED <<uploaded_files, assets>>
           ELSE IF ~accepted
           THEN /\ Reply("upload_file", 400, None, None)
                /\ UNCHANGED <<uploaded_files, assets>>
           ELSE IF ~stored
           THEN /\ Reply("upload_file", 500, None, None)
                /\ UNCHANGED <<uploaded_files, assets>>
           ELSE /\ Cardinality(assets) < MaxUploads
                /\ assets' = assets \cup {file_path}
                /\ uploaded_files' = uploaded_files \cup {uploaded_file}
                /\ Reply("upload_file", 200, None, None)
        /\ UNCHANGED <<users, projects, user_projects, tokens, born>>
        /\ UNCHANGED pipeline

delete_file(cookie, file_id) ==
    LET user == get_current_user(cookie)
        uploaded_file == FileById(file_id)
        project == IF uploaded_file = None THEN None
                   ELSE ProjectById(uploaded_file[1].project_id)
    IN  /\ IF user = None
           THEN /\ Reply("delete_file", 401, None, None)
                /\ UNCHANGED <<uploaded_files, assets>>
           ELSE IF uploaded_file = None \/ project = None
           THEN /\ Reply("delete_file", 404, None, None)
                /\ UNCHANGED <<uploaded_files, assets>>
           ELSE IF user[1].is_admin # 1 /\ project[1].created_by # user[1].username
           THEN /\ Reply("delete_file", 403, None, None)
                /\ UNCHANGED <<uploaded_files, assets>>
           ELSE /\ assets' = assets \ {uploaded_file[1].file_path}
                /\ uploaded_files' = uploaded_files \ {uploaded_file[1]}
                /\ Reply("delete_file", 200, None, None)
        /\ UNCHANGED <<users, projects, user_projects, tokens, born>>
        /\ UNCHANGED pipeline

-----------------------------------------------------------------------------
(* backend/app.py init_admin_user, backend/manage_users.py, backend/add_admin.py *)
(* A command answers status 1 where the script reports success (True), 0    *)
(* where it refuses.                                                        *)

InsertUser(new_user) ==
    /\ born < MaxAccounts
    /\ users' = users \cup {new_user}
    /\ born' = born + 1

\* admin_password is secrets.token_urlsafe(12): any password
init_admin_user(admin_password) ==
    LET admin == UserByName("vasnas")
        admin_user == [id |-> NextId(users), username |-> "vasnas",
                       hashed_password |-> get_password_hash(admin_password),
                       is_admin |-> 1, account |-> born + 1]
    IN  /\ IF admin = None
           THEN /\ InsertUser(admin_user)
                /\ Reply("init_admin_user", 1, None, None)
           ELSE /\ Reply("init_admin_user", 0, None, None)
                /\ UNCHANGED <<users, born>>
        /\ UNCHANGED <<projects, user_projects, uploaded_files, assets, tokens>>
        /\ UNCHANGED pipeline

add_user(username, password, is_admin) ==
    LET existing == UserByName(username)
        user == [id |-> NextId(users), username |-> username,
                 hashed_password |-> get_password_hash(password),
                 is_admin |-> IF is_admin THEN 1 ELSE 0, account |-> born + 1]
    IN  /\ IF existing # None \/ IntegrityError(user)
           THEN /\ Reply("add_user", 0, None, None)
                /\ UNCHANGED <<users, born>>
           ELSE /\ InsertUser(user)
                /\ Reply("add_user", 1, None, None)
        /\ UNCHANGED <<projects, user_projects, uploaded_files, assets, tokens>>
        /\ UNCHANGED pipeline

manage_users_delete_user(username) ==
    LET user == UserByName(username)
    IN  /\ IF user = None \/ username = "vasnas"
           THEN /\ Reply("manage_users.delete_user", 0, None, None)
                /\ UNCHANGED <<users, user_projects>>
           ELSE /\ DeleteUserRow(user[1])
                /\ Reply("manage_users.delete_user", 1, None, None)
        /\ UNCHANGED <<projects, uploaded_files, assets, tokens, born>>
        /\ UNCHANGED pipeline

reset_password(username, new_password) ==
    LET user == UserByName(username)
    IN  /\ IF user = None
           THEN /\ Reply("reset_password", 0, None, None)
                /\ UNCHANGED users
           ELSE /\ users' = (users \ {user[1]}) \cup
                        {[user[1] EXCEPT !.hashed_password = get_password_hash(new_password)]}
                /\ Reply("reset_password", 1, None, None)
        /\ UNCHANGED <<projects, user_projects, uploaded_files, assets, tokens, born>>
        /\ UNCHANGED pipeline

make_admin(username) ==
    LET user == UserByName(username)
    IN  /\ IF user = None
           THEN /\ Reply("make_admin", 0, None, None)
                /\ UNCHANGED users
           ELSE /\ users' = (users \ {user[1]}) \cup {[user[1] EXCEPT !.is_admin = 1]}
                /\ Reply("make_admin", 1, None, None)
        /\ UNCHANGED <<projects, user_projects, uploaded_files, assets, tokens, born>>
        /\ UNCHANGED pipeline

\* update: the answer to "Do you want to update them to admin? (y/n)" is y
add_admin(username, password, update) ==
    LET existing_user == UserByName(username)
        admin_user == [id |-> NextId(users), username |-> username,
                       hashed_password |-> get_password_hash(password),
                       is_admin |-> 1, account |-> born + 1]
    IN  /\ IF existing_user # None
           THEN /\ IF update
                   THEN users' = (users \ {existing_user[1]}) \cup
                            {[existing_user[1] EXCEPT !.is_admin = 1,
                                 !.hashed_password = get_password_hash(password)]}
                   ELSE UNCHANGED users
                /\ Reply("add_admin", 0, None, None)
                /\ UNCHANGED born
           ELSE /\ InsertUser(admin_user)
                /\ Reply("add_admin", 1, None, None)
        /\ UNCHANGED <<projects, user_projects, uploaded_files, assets, tokens>>
        /\ UNCHANGED pipeline

-----------------------------------------------------------------------------
(* The backend serving requests, and the scripts run beside it *)

Login == \E username \in Usernames, password \in Passwords : login(username, password)
CreateUser ==
    \E cookie \in Cookies, username \in Usernames, password \in Passwords, is_admin \in BOOLEAN :
        create_user(cookie, username, password, is_admin)
DeleteUser == \E cookie \in Cookies, user_id \in UserIds : delete_user(cookie, user_id)
ChangePassword ==
    \E cookie \in Cookies, user_id \in UserIds, password \in Passwords :
        change_password(cookie, user_id, password)
AssignProjects ==
    \E cookie \in Cookies, user_id \in UserIds, project_ids \in SUBSET ProjectIds :
        assign_projects(cookie, user_id, project_ids)
ProjectsPage == \E cookie \in Cookies : projects_page(cookie)
ProjectsTable == \E cookie \in Cookies : projects_table(cookie)
CreateProject == \E cookie \in Cookies, name \in ProjectNames : create_project(cookie, name)
DeleteProject ==
    \E cookie \in Cookies, project_id \in ProjectIds : delete_project(cookie, project_id)
UpdateProject ==
    \E cookie \in Cookies, project_id \in ProjectIds, name \in ProjectNames :
        update_project(cookie, project_id, name)
UploadFile ==
    \E cookie \in Cookies, project_id \in ProjectIds, accepted \in BOOLEAN, stored \in BOOLEAN :
        upload_file(cookie, project_id, accepted, stored)
DeleteFile == \E cookie \in Cookies, file_id \in FileIds : delete_file(cookie, file_id)
InitAdminUser == \E admin_password \in Passwords : init_admin_user(admin_password)
AddUser ==
    \E username \in Usernames, password \in Passwords, is_admin \in BOOLEAN :
        add_user(username, password, is_admin)
ManageUsersDeleteUser == \E username \in Usernames : manage_users_delete_user(username)
ResetPassword ==
    \E username \in Usernames, new_password \in Passwords : reset_password(username, new_password)
MakeAdmin == \E username \in Usernames : make_admin(username)
AddAdmin ==
    \E username \in Usernames, password \in Passwords, update \in BOOLEAN :
        add_admin(username, password, update)

InitBackend ==
    /\ cfg = DefaultConfig
    /\ fp = Exact
    /\ probe = NoProbe
    /\ Idle

\* python app.py: init_admin_user, then the application serves requests.
NextBackend ==
    \/ InitAdminUser
    \/ Login
    \/ CreateUser
    \/ DeleteUser
    \/ ChangePassword
    \/ AssignProjects
    \/ ProjectsPage
    \/ ProjectsTable
    \/ CreateProject
    \/ DeleteProject
    \/ UpdateProject
    \/ UploadFile
    \/ DeleteFile

SpecBackend == InitBackend /\ [][NextBackend]_vars

\* The users table under the endpoints of the application that write it and
\* the commands of manage_users.py and add_admin.py, in any order.
NextUserStore ==
    \/ InitAdminUser
    \/ Login
    \/ CreateUser
    \/ DeleteUser
    \/ ChangePassword
    \/ AddUser
    \/ ManageUsersDeleteUser
    \/ ResetPassword
    \/ MakeAdmin
    \/ AddAdmin

SpecUserStore == InitBackend /\ [][NextUserStore]_vars

-----------------------------------------------------------------------------
(* Properties *)

\* A profiled tile whose quantized underside is not below its top.
InvalidEnclosure(p) ==
    /\ p.min_z # None
    /\ quantized_bottom(p.min_z[1]) >= p.min_z[1] + Half(cfg.TILE_SIZE)

Reported(kind, row, col) ==
    \/ raised = Some(kind)
    \/ \E j \in 1..Len(stdout) :
          stdout[j].line = kind /\ stdout[j].row = row /\ stdout[j].col = col

ExportedFor(row, col) == {k \in 1..Len(exports) : exports[k].tile = TileName(row, col)}

\* The names of the modifiers modifier_apply was called with for tile t, in order.
StepsOf(t) ==
    LET sel == SelectSeq(steps, LAMBDA st : st.tile = t)
    IN  [k \in 1..Len(sel) |-> sel[k].modifier]

AppliedOf(t) ==
    LET sel == SelectSeq(steps, LAMBDA st : st.tile = t /\ st.ok)
    IN  [k \in 1..Len(sel) |-> sel[k].modifier]

\* The indices main() processes, in the order it processes them.
Expected ==
    IF cfg.SINGLE_TILE_MODE THEN << <<cfg.SINGLE_TILE_ROW, cfg.SINGLE_TILE_COL>> >>
    ELSE GridIndices

\* Grid indices whose footprint holds a vertex of the mesh file.
Populated ==
    {i \in {GridIndices[k] : k \in 1..Len(GridIndices)} :
        \E v \in mesh : /\ i[2] * cfg.TILE_SIZE <= v.x /\ v.x <= (i[2] + 1) * cfg.TILE_SIZE
                        /\ i[1] * cfg.TILE_SIZE <= v.y /\ v.y <= (i[1] + 1) * cfg.TILE_SIZE}

\* C1: an enclosure is built only when bottom_z < top_z; a tile whose
\* configuration gives bottom_z >= top_z is reported as InvalidEnclosureError
\* and no cube is built for it.
C1_EnclosureHeightPositive ==
    /\ \A n \in DOMAIN scene :
          scene[n].kind = "tile" => scene[n].cube_bottom < scene[n].cube_top
    /\ \A k \in 1..Len(profiled) :
          InvalidEnclosure(profiled[k]) =>
              /\ TileName(profiled[k].row, profiled[k].col) \notin DOMAIN scene
              /\ Reported("InvalidEnclosureError", profiled[k].row, profiled[k].col)

\* C2 as stated: with QUANTIZE_FILL, a positive step and EPS >= 0, the value
\* quantized_bottom returns is at most min_z - MIN_MODEL_BASE_DEPTH.
C2_BottomBelowBaseDepth ==
    (/\ probe.fn = "quantized_bottom" /\ probe.result # None
     /\ cfg.QUANTIZE_FILL /\ cfg.FILL_LAYER_THICKNESS > 0 /\ cfg.EPS >= 0)
    => probe.result[1] <= probe.arg - cfg.MIN_MODEL_BASE_DEPTH

\* The rounding errors six floating-point operations can add up to.
RoundingSlack == 6 * MaxRoundErr

\* C2 (amended): with QUANTIZE_FILL, a positive step and EPS at least the
\* accumulated rounding error of the six floating-point operations, the value
\* quantized_bottom returns is at most min_z - MIN_MODEL_BASE_DEPTH.
C2_BottomBelowBaseDepthUpToRounding ==
    (/\ probe.fn = "quantized_bottom" /\ probe.result # None
     /\ cfg.QUANTIZE_FILL /\ cfg.FILL_LAYER_THICKNESS > 0 /\ cfg.EPS >= RoundingSlack)
    => probe.result[1] <= probe.arg - cfg.MIN_MODEL_BASE_DEPTH

\* A call with a negative operand of floor, every operation rounding up, and
\* an EPS that covers the rounding.
C2_Witness ==
    /\ probe.fn = "quantized_bottom" /\ probe.result # None
    /\ cfg.QUANTIZE_FILL /\ cfg.EPS >= RoundingSlack
    /\ probe.arg - cfg.MIN_MODEL_BASE_DEPTH - cfg.QUANTIZE_ANCHOR_Z < 0
    /\ \A site \in FpSites : fp[site] = MaxRoundErr
    /\ probe.result[1] <= probe.arg - cfg.MIN_MODEL_BASE_DEPTH

\* The offset from the tile's edges at which cutter k (1..8, two per corner)
\* was placed, along x and along y.
EffectiveOffsets(arg, cutters, k) ==
    LET corner == (k + 1) \div 2
        sx == IF corner \in {1, 3} THEN 0 - 1 ELSE 1
        sy == IF corner \in {1, 2} THEN 0 - 1 ELSE 1
    IN  <<Half(cfg.TILE_SIZE) - sx * (cutters[k].location[1] - arg.x),
          Half(cfg.TILE_SIZE) - sy * (cutters[k].location[2] - arg.y)>>

\* C3: the corner offset add_corner_magnets places every bore and countersink
\* at is max(configured offset, MAGNET_RADIUS + MAGNET_SAFETY), so it is never
\* below MAGNET_RADIUS + MAGNET_SAFETY; radius 0.005, safety 0.001 and a
\* configured 0.001 give 0.006.
C3_OffsetClamped ==
    (probe.fn = "add_corner_magnets" /\ probe.result # None) =>
        LET configured == cfg.MAGNET_PERIM_OFFSET_MM * MM
            floor_ == cfg.MAGNET_RADIUS + cfg.MAGNET_SAFETY
        IN  \A k \in 1..8 :
               LET off == EffectiveOffsets(probe.arg, probe.result[1], k)
               IN  /\ off[1] = off[2]
                   /\ off[1] >= floor_
                   /\ off[1] >= configured
                   /\ off[1] \in {configured, floor_}
                   /\ (cfg.MAGNET_RADIUS = 50000 /\ cfg.MAGNET_SAFETY = 10000
                       /\ cfg.MAGNET_PERIM_OFFSET_MM = 1) => off[1] = 60000

\* Scenario C has been computed.
C3_Witness ==
    /\ probe.fn = "add_corner_magnets" /\ probe.result # None
    /\ cfg.MAGNET_RADIUS = 50000 /\ cfg.MAGNET_SAFETY = 10000
    /\ cfg.MAGNET_PERIM_OFFSET_MM = 1
    /\ EffectiveOffsets(probe.arg, probe.result[1], 1) = <<60000, 60000>>

\* The indices process_tile found no vertex for.
Skipped ==
    {<<profiled[k].row, profiled[k].col>> : k \in {j \in 1..Len(profiled) : profiled[j].min_z = None}}

\* C4: a tile in whose footprint the profiler finds no vertex is skipped: no
\* cube and no cutter is created for it, no boolean step is attempted on it,
\* no file is exported for it, no error is raised, and main() goes on to every
\* index that follows it.
C4_EmptyTileSkipped ==
    LET sk == Skipped
        ex == Expected
        built(n) == <<scene[n].row, scene[n].col>>
    IN  /\ sk # {} =>
              /\ \A n \in DOMAIN scene :
                    scene[n].kind \in {"tile", "cylinder", "cone"} => built(n) \notin sk
              /\ \A j \in 1..Len(steps) :
                    steps[j].tile \in DOMAIN scene /\ built(steps[j].tile) \notin sk
              /\ \A j \in 1..Len(exports) :
                    /\ <<exports[j].row, exports[j].col>> \notin sk
                    /\ exports[j].tile \in DOMAIN scene /\ built(exports[j].tile) \notin sk
              /\ raised = None
        /\ Len(profiled) <= Len(ex)
        /\ \A k \in 1..Len(profiled) : <<profiled[k].row, profiled[k].col>> = ex[k]
        /\ pc \in {"apply", "summary", "done"} => Len(profiled) = Len(ex)

\* A full-grid run is over in which a skipped tile was followed by a
\* populated one, which was exported.
C4_Witness ==
    /\ pc = "done"
    /\ \E k \in 1..Len(profiled) : \E j \in (k + 1)..Len(profiled) :
          /\ profiled[k].min_z = None
          /\ profiled[j].min_z # None
          /\ ExportedFor(profiled[j].row, profiled[j].col) # {}

\* C5: a failed subtraction step leaves the tile with the geometry it had
\* (the tile's geometry is the result of exactly its successful steps), the
\* tile's remaining steps are still attempted, the tile and every other
\* populated tile are exported, and the failure never ends the run.
C5_FailureIsolation ==
    /\ Failures > 0 => (raised = None /\ pc # "raised")
    /\ \A i \in 1..Len(tiles) :
          /\ scene[tiles[i]].applied = AppliedOf(tiles[i])
          /\ Len(scene[tiles[i]].applied) + Len(scene[tiles[i]].modifiers) = 9
    /\ \A j \in 1..Len(exports) :
          /\ Len(StepsOf(exports[j].tile)) = 9
          /\ exports[j].applied = AppliedOf(exports[j].tile)
    /\ pc \in {"summary", "done"} =>
          \A i \in 1..Len(tiles) :
              Cardinality({j \in 1..Len(exports) : exports[j].tile = tiles[i]}) = 1

\* A run with two or more tiles is over, a step of one tile failed, and every
\* tile was exported.
C5_Witness ==
    /\ pc = "done"
    /\ Failures > 0
    /\ Len(tiles) >= 2
    /\ Len(exports) = Len(tiles)
    /\ \E j \in 1..Len(exports) : Len(exports[j].applied) < 9

\* C6: every failed subtraction step is logged with a warning that names the
\* tile and the step.
C6_FailureLogged ==
    \A k \in 1..Len(steps) :
        ~steps[k].ok =>
            \E j \in 1..Len(stdout) :
                /\ stdout[j].line = "Warning"
                /\ stdout[j].tile = steps[k].tile
                /\ stdout[j].step = steps[k].modifier

Rank(name) ==
    IF name = DifferenceName THEN 0 ELSE IF name[1] = "MagnetHole" THEN 1 ELSE 2

\* C7 as stated: the steps of a tile are applied in the order global mesh,
\* all four bores, all four countersinks.
C7_MeshBoresCountersinks ==
    \A i \in 1..Len(tiles) :
        LET done == StepsOf(tiles[i])
        IN  \A a, b \in 1..Len(done) : a < b => Rank(done[a]) <= Rank(done[b])

\* The order in which the modifiers of a tile are applied.
CornerOrder ==
    <<DifferenceName>> \o
    [k \in 1..8 |-> IF k % 2 = 1 THEN ModifierName("MagnetHole", (k - 1) \div 2)
                                 ELSE ModifierName("MagnetCountersink", (k - 2) \div 2)]

\* C7 (amended): the steps of a tile are applied in the order global mesh,
\* then corner by corner (0 to 3) the corner's bore followed by that corner's
\* countersink; no countersink is applied before the bore of its own corner.
C7_MeshThenCornerByCorner ==
    \A i \in 1..Len(tiles) :
        LET done == StepsOf(tiles[i])
        IN  /\ Len(done) <= 9
            /\ done = SubSeq(CornerOrder, 1, Len(done))

\* All nine steps of a tile have been attempted.
C7_Witness ==
    \E i \in 1..Len(tiles) : Len(StepsOf(tiles[i])) = 9

\* C8: a tile with bottom_z >= top_z is logged and abandoned: at the end of
\* the batch no file has been exported for it, and every other populated tile
\* has been exported.
C8_InvalidTileAbandoned ==
    pc = "done" =>
        \A k \in 1..Len(profiled) :
            /\ InvalidEnclosure(profiled[k]) =>
                  /\ ExportedFor(profiled[k].row, profiled[k].col) = {}
                  /\ Reported("InvalidEnclosureError", profiled[k].row, profiled[k].col)
            /\ (profiled[k].min_z # None /\ ~InvalidEnclosure(profiled[k])) =>
                  ExportedFor(profiled[k].row, profiled[k].col) # {}

\* C9: when the city mesh file is absent the run ends in ensure_dirs with
\* FileNotFoundError: the scene is as it was, and nothing is profiled, built,
\* subtracted or exported.
C9_MissingMeshAborts ==
    ~fs.city_mesh =>
        /\ pc \in {"ensure_dirs", "raised"}
        /\ pc = "raised" => raised = Some("FileNotFoundError")
        /\ scene = StartupScene
        /\ profiled = <<>> /\ tiles = <<>> /\ steps = <<>> /\ exports = <<>>

C9_Witness ==
    /\ ~fs.city_mesh
    /\ pc = "raised"
    /\ raised = Some("FileNotFoundError")

\* C10: at the end of a full-grid run the exported files are exactly
\* tile_<col>_<row> for the populated indices (row, col), one export each;
\* the index read back from a tile's name is the index the tile was built
\* for, and distinct tiles have distinct names and files.
C10_ExportedFiles ==
    (pc = "done" /\ ~cfg.SINGLE_TILE_MODE) =>
        /\ {exports[k].path : k \in 1..Len(exports)} = {OutPath(i[1], i[2]) : i \in Populated}
        /\ Len(exports) = Cardinality(Populated)
        /\ \A i \in Populated : Cardinality(ExportedFor(i[1], i[2])) = 1
        /\ \A k \in 1..Len(exports) :
              LET t == exports[k].tile
              IN  /\ ParsedIndex(t).error = ""
                  /\ ParsedIndex(t).row = scene[t].row
                  /\ ParsedIndex(t).col = scene[t].col
                  /\ exports[k].path = OutPath(scene[t].row, scene[t].col)
        /\ \A a, b \in 1..Len(exports) :
              a # b => (exports[a].tile # exports[b].tile /\ exports[a].path # exports[b].path)

\* A full-grid run is over with populated and unpopulated tiles, one of the
\* populated ones off the diagonal.
C10_Witness ==
    /\ pc = "done" /\ ~cfg.SINGLE_TILE_MODE
    /\ Len(exports) >= 2
    /\ Len(exports) < Len(profiled)
    /\ \E k \in 1..Len(exports) : scene[exports[k].tile].row # scene[exports[k].tile].col

-----------------------------------------------------------------------------
(* The per-tile state machine *)

ExpectedSet == {Expected[k] : k \in 1..Len(Expected)}

\* What the run has made of the tiles so far: the indices with a height
\* profile and a vertex (line 172), without a vertex (lines 173-175), with a
\* cube (lines 182-189), with nine modifiers and their cutters (lines
\* 192-195), with nine attempted booleans (lines 223-227), with a file (lines
\* 229-230).
Progress ==
    LET index(k) == <<scene[tiles[k]].row, scene[tiles[k]].col>>
        attempts(k) == Cardinality({n \in 1..Len(steps) : steps[n].tile = tiles[k]})
        fixtures(k) ==
            LET obj == scene[tiles[k]]
            IN  /\ Len(obj.modifiers) + Len(obj.applied) = 9
                /\ \A m \in 1..Len(obj.modifiers) : obj.modifiers[m].object \in DOMAIN scene
    IN  [exported |-> {<<exports[j].row, exports[j].col>> : j \in 1..Len(exports)},
         combined |-> {index(k) : k \in {h \in 1..Len(tiles) : attempts(h) = 9}},
         fixtured |-> {index(k) : k \in {h \in 1..Len(tiles) : fixtures(h)}},
         sized |-> {index(k) : k \in 1..Len(tiles)},
         found |-> {<<profiled[k].row, profiled[k].col>> :
                      k \in {h \in 1..Len(profiled) : profiled[h].min_z # None}},
         empty |-> {<<profiled[k].row, profiled[k].col>> :
                      k \in {h \in 1..Len(profiled) : profiled[h].min_z = None}}]

\* The state of tile i when the run has come as far as p.
TileState(p, i) ==
    IF i \in p.exported THEN "Exported"
    ELSE IF i \in p.combined THEN "Combined"
    ELSE IF i \in p.fixtured THEN "Fixtured"
    ELSE IF i \in p.sized THEN "Sized"
    ELSE IF i \in p.found THEN "Profiled"
    ELSE IF i \in p.empty THEN "Skipped"
    ELSE "Unprocessed"

\* One step of the run takes a tile from state s to state s2 along the chain:
\* one call of process_tile profiles, sizes and fixtures a populated tile, or
\* profiles and skips an unpopulated one; later each step moves it by one state.
Allowed(s, s2) ==
    \/ s2 = s
    \/ s = "Unprocessed" /\ s2 \in {"Fixtured", "Skipped"}
    \/ s = "Fixtured" /\ s2 = "Combined"
    \/ s = "Combined" /\ s2 = "Exported"

HasVertex(i) ==
    \E v \in mesh : /\ i[2] * cfg.TILE_SIZE <= v.x /\ v.x <= (i[2] + 1) * cfg.TILE_SIZE
                    /\ i[1] * cfg.TILE_SIZE <= v.y /\ v.y <= (i[1] + 1) * cfg.TILE_SIZE

\* C11: every tile moves only along Profiled -> Sized -> Fixtured -> Combined
\* -> Exported, or from Profiled to Skipped when no vertex lies in its
\* footprint; it never moves backwards, never jumps over Combined, never
\* returns to a state it left, and never leaves Exported or Skipped.
C11_TileStateMachine ==
    [][\A p \in {Progress} : \A p2 \in {Progress'} :
          \A i \in ExpectedSet :
              LET s == TileState(p, i)
                  s2 == TileState(p2, i)
              IN  /\ Allowed(s, s2)
                  /\ s2 # s =>
                        /\ s2 = "Skipped" => ~HasVertex(i)
                        /\ s2 \in {"Fixtured", "Combined", "Exported"} => HasVertex(i)]_vars

\* A full-grid run is over: one tile went all the way to Exported after nine
\* attempted booleans, another was skipped.
C11_Witness ==
    /\ pc = "done"
    /\ ~cfg.SINGLE_TILE_MODE
    /\ \E i, j \in ExpectedSet :
          /\ TileState(Progress, i) = "Exported"
          /\ Len(StepsOf(TileName(i[1], i[2]))) = 9
          /\ TileState(Progress, j) = "Skipped"

\* C12: the indices processed in a run are the whole grid, each once, in
\* full-grid mode, and the one selected index in single-tile mode; in both
\* modes every processed index lies inside the grid: 0 <= row < TILES_Y and
\* 0 <= col < TILES_X.
C12_ProcessedIndices ==
    /\ \A k \in 1..Len(profiled) :
          /\ profiled[k].row \in 0..(cfg.TILES_Y - 1)
          /\ profiled[k].col \in 0..(cfg.TILES_X - 1)
    /\ \A j, k \in 1..Len(profiled) :
          (profiled[j].row = profiled[k].row /\ profiled[j].col = profiled[k].col) => j = k
    /\ pc \in {"apply", "summary", "done"} =>
          {<<profiled[k].row, profiled[k].col>> : k \in 1..Len(profiled)} =
              IF cfg.SINGLE_TILE_MODE
              THEN {<<cfg.SINGLE_TILE_ROW, cfg.SINGLE_TILE_COL>>}
              ELSE (0..(cfg.TILES_Y - 1)) \X (0..(cfg.TILES_X - 1))

-----------------------------------------------------------------------------
(* What a run makes of a tile, and what the mesh and the configuration fix *)

\* The boundary and the fixture coordinates of tile object t as they stand in
\* the scene: the cube's centre, edge and height, and the centres of its
\* cutters, bores then countersinks, corners 0 to 3.
Built(t) ==
    LET obj == scene[t]
    IN  [location |-> obj.location,
         size |-> obj.size,
         height |-> obj.scale_z[1],
         bores |-> [k \in 1..4 |->
                      scene[CutterName("MagnetHole", obj.row, obj.col, k - 1)].location],
         countersinks |-> [k \in 1..4 |->
                      scene[CutterName("MagnetCountersink", obj.row, obj.col, k - 1)].location]]

\* The same coordinates worked out for index i from the mesh file and the
\* configuration alone.
Outcome(i) ==
    LET S == cfg.TILE_SIZE
        min_z == MinOf({v.z : v \in {w \in mesh :
                           /\ i[2] * S <= w.x /\ w.x <= (i[2] + 1) * S
                           /\ i[1] * S <= w.y /\ w.y <= (i[1] + 1) * S}})
        x == i[2] * S + Half(S)
        y == i[1] * S + Half(S)
        bottom == quantized_bottom(min_z)
        top == min_z + Half(S)
        off == Max(cfg.MAGNET_PERIM_OFFSET_MM * MM, cfg.MAGNET_RADIUS + cfg.MAGNET_SAFETY)
        d == Half(S) - off
        cone_r == Max(cfg.MAGNET_RADIUS - cfg.COUNTERSINK_SHOULDER, MIN_CONE_RADIUS)
        xy(k) == <<IF k % 2 = 1 THEN x - d ELSE x + d, IF k <= 2 THEN y - d ELSE y + d>>
    IN  [location |-> <<x, y, bottom + Half(top - bottom)>>,
         size |-> S,
         height |-> top - bottom,
         bores |-> [k \in 1..4 |->
                      <<xy(k)[1], xy(k)[2], bottom + Half(cfg.MAGNET_HEIGHT) - Half(extra)>>],
         countersinks |-> [k \in 1..4 |->
                      <<xy(k)[1], xy(k)[2],
                        bottom + cfg.MAGNET_HEIGHT - CONE_OVERLAP + Half(cone_r)>>]]

\* C13: whatever the order in which the indices of the grid are processed,
\* every tile in the scene has the boundary and the fixture coordinates that
\* the mesh and the configuration fix for its index, before and after any
\* other tile is processed, combined or exported, and the files written are
\* those of the populated indices.
C13_OrderIndependence ==
    /\ \A k \in 1..Len(tiles) :
          Built(tiles[k]) = Outcome(<<scene[tiles[k]].row, scene[tiles[k]].col>>)
    /\ {tiles[k] : k \in 1..Len(tiles)} =
          {TileName(profiled[k].row, profiled[k].col) :
              k \in {h \in 1..Len(profiled) : HasVertex(<<profiled[h].row, profiled[h].col>>)}}
    /\ pc = "done" =>
          {exports[k].path : k \in 1..Len(exports)} =
              {OutPath(i[1], i[2]) : i \in {j \in ExpectedSet : HasVertex(j)}}

\* A run that took the populated indices against the order of the grid is
\* over: tile (1,1) was built and exported before tile (0,0).
C13_Witness ==
    /\ pc = "done"
    /\ Len(exports) = 2
    /\ exports[1].tile = TileName(1, 1)
    /\ exports[2].tile = TileName(0, 0)
    /\ scene[TileName(1, 1)].location[3] # scene[TileName(0, 0)].location[3]

\* The products of a run: for every exported file, the footprint, the
\* underside and the top of its enclosure and the centres of its bores and
\* countersinks.
Products ==
    {[path |-> exports[k].path,
      footprint |-> LET c == scene[exports[k].tile].location
                        h == Half(scene[exports[k].tile].size)
                    IN  <<c[1] - h, c[1] + h, c[2] - h, c[2] + h>>,
      bottom_z |-> scene[exports[k].tile].cube_bottom,
      top_z |-> scene[exports[k].tile].cube_top,
      bores |-> Built(exports[k].tile).bores,
      countersinks |-> Built(exports[k].tile).countersinks] : k \in 1..Len(exports)}

\* The products the mesh file and the configuration determine.
Determined ==
    {[path |-> OutPath(i[1], i[2]),
      footprint |-> <<i[2] * cfg.TILE_SIZE, (i[2] + 1) * cfg.TILE_SIZE,
                      i[1] * cfg.TILE_SIZE, (i[1] + 1) * cfg.TILE_SIZE>>,
      bottom_z |-> Outcome(i).location[3] - Half(Outcome(i).height),
      top_z |-> Outcome(i).location[3] - Half(Outcome(i).height) + Outcome(i).height,
      bores |-> Outcome(i).bores,
      countersinks |-> Outcome(i).countersinks] : i \in {j \in ExpectedSet : HasVertex(j)}}

\* C14: a completed run's products (exported files, footprints, enclosure
\* undersides and tops, bore and countersink centres) are a function of the
\* mesh file and the configuration alone, whichever boolean steps failed on
\* the way: two runs on the same mesh and configuration produce the same.
C14_Determinism ==
    pc = "done" => Products = Determined

\* Two tiles were exported by a run in which a boolean step failed.
C14_Witness ==
    /\ pc = "done"
    /\ Failures > 0
    /\ Cardinality(Products) >= 2

-----------------------------------------------------------------------------
(* Frame of the tile pipeline *)

\* An object of the scene without its visibility, which is kept by the view
\* layer (hide_set) and not by the object or its mesh.
Shape(obj) == [obj EXCEPT !.hidden = FALSE]

\* C15: once the city mesh is imported and its normals are recalculated, no
\* step of the run (process_tile, hiding, apply_modifiers, export_tile, the
\* summary) changes the vertices or the normals of the city mesh or removes
\* it, and a step changes the geometry or the modifier stack of at most the
\* one tile whose boolean it applies: every other tile and every cutter stays
\* as it was built.
C15_MeshAndOtherTilesUntouched ==
    [][(pc = "process" \/ pc = "apply" \/ pc = "summary") =>
          /\ scene[CityName].verts = VertexList(mesh)
          /\ \A n \in DOMAIN scene :
                /\ n \in DOMAIN scene'
                /\ Shape(scene'[n]) # Shape(scene[n]) =>
                      /\ pc = "apply"
                      /\ n = tiles[cur.i]
                      /\ scene[n].kind = "tile"]_vars

\* The second tile of a run has had a boolean applied, after the first tile
\* was exported, and the city mesh still has the vertices of the file.
C15_Witness ==
    /\ pc = "apply"
    /\ cur.i = 2
    /\ scene[tiles[2]].applied # <<>>
    /\ Len(exports) = 1
    /\ scene[CityName].verts = VertexList(mesh)
    /\ mesh # {}
    /\ scene[CityName].normals = "consistent_flipped"

-----------------------------------------------------------------------------
(* The Base Quantizer *)

\* The snapped level of the reference Base Quantizer, in exact arithmetic.
ReferenceSnapped(min_z) ==
    cfg.QUANTIZE_ANCHOR_Z
      + FloorDiv(min_z - cfg.MIN_MODEL_BASE_DEPTH - cfg.QUANTIZE_ANCHOR_Z,
                 cfg.FILL_LAYER_THICKNESS) * cfg.FILL_LAYER_THICKNESS

ReferenceBottom(min_z) ==
    IF ~cfg.QUANTIZE_FILL
    THEN min_z - cfg.MIN_MODEL_BASE_DEPTH - cfg.FILL_LAYER_THICKNESS
    ELSE ReferenceSnapped(min_z) - cfg.EPS

\* C16 as stated: quantized_bottom returns the value of the reference Base
\* Quantizer for every input; when quantizing, snapped (the result plus EPS)
\* is a whole number of steps from the anchor and
\* pre_base - FILL_LAYER_THICKNESS < snapped <= pre_base.
C16_QuantizerEqualsReference ==
    (probe.fn = "quantized_bottom" /\ probe.result # None) =>
        /\ probe.result[1] = ReferenceBottom(probe.arg)
        /\ cfg.QUANTIZE_FILL =>
              LET snapped == probe.result[1] + cfg.EPS
                  pre_base == probe.arg - cfg.MIN_MODEL_BASE_DEPTH
              IN  /\ (snapped - cfg.QUANTIZE_ANCHOR_Z) % cfg.FILL_LAYER_THICKNESS = 0
                  /\ pre_base - cfg.FILL_LAYER_THICKNESS < snapped
                  /\ snapped <= pre_base

\* C16: quantized_bottom returns the value of the reference Base Quantizer
\* when no operation rounds; in floating point the result is within the
\* accumulated rounding error of it, except that a quotient within rounding
\* error of a whole number may be floored to the neighbouring whole number,
\* which moves snapped by one step: snapped is within rounding error of a
\* whole number of steps from the anchor, and
\* pre_base - FILL_LAYER_THICKNESS - slack < snapped <= pre_base + slack.
\* Step 0.02, base depth 0.005, anchor 0, min_z 0.137 give snapped 0.12.
C16_QuantizerEqualsReferenceUpToRounding ==
    (probe.fn = "quantized_bottom" /\ probe.result # None) =>
        LET result == probe.result[1]
            step == cfg.FILL_LAYER_THICKNESS
            pre_base == probe.arg - cfg.MIN_MODEL_BASE_DEPTH
            snapped == result + cfg.EPS
        IN  /\ fp = Exact => result = ReferenceBottom(probe.arg)
            /\ ~cfg.QUANTIZE_FILL => Abs(result - ReferenceBottom(probe.arg)) <= RoundingSlack
            /\ cfg.QUANTIZE_FILL =>
                  /\ \E n \in {0 - 1, 0, 1} :
                        Abs(snapped - (ReferenceSnapped(probe.arg) + n * step)) <= RoundingSlack
                  /\ pre_base - step - RoundingSlack < snapped
                  /\ snapped <= pre_base + RoundingSlack
            /\ (/\ cfg.QUANTIZE_FILL /\ step = 200000 /\ cfg.MIN_MODEL_BASE_DEPTH = 50000
                /\ cfg.QUANTIZE_ANCHOR_Z = 0 /\ probe.arg = 1370000)
               => Abs(snapped - 1200000) <= RoundingSlack

\* A call whose exact quotient is a whole number and whose rounded quotient is
\* floored one lower: snapped is a step below the reference.
C16_Witness ==
    /\ probe.fn = "quantized_bottom" /\ probe.result # None
    /\ cfg.QUANTIZE_FILL
    /\ (probe.arg - cfg.MIN_MODEL_BASE_DEPTH - cfg.QUANTIZE_ANCHOR_Z)
          % cfg.FILL_LAYER_THICKNESS = 0
    /\ probe.result[1] + cfg.EPS
          <= ReferenceSnapped(probe.arg) - cfg.FILL_LAYER_THICKNESS + RoundingSlack

-----------------------------------------------------------------------------
(* The Fixture Placer *)

\* The distances of the centre of cutter k from the four edges of the
\* footprint of the tile centred at (arg.x, arg.y): west, east, south, north.
EdgeDistances(arg, cutters, k) ==
    LET h == Half(cfg.TILE_SIZE)
        cx == cutters[k].location[1]
        cy == cutters[k].location[2]
    IN  <<cx - (arg.x - h), (arg.x + h) - cx, cy - (arg.y - h), (arg.y + h) - cy>>

\* The signs of the corners in the order add_corner_magnets takes them.
CornerSigns == << <<0 - 1, 0 - 1>>, <<1, 0 - 1>>, <<0 - 1, 1>>, <<1, 1>> >>

\* C17 as stated: for every configuration the centre of each of the four
\* bores is at distance >= MAGNET_RADIUS + MAGNET_SAFETY from every edge of
\* the footprint.
C17_BoreInsideMargin ==
    (probe.fn = "add_corner_magnets" /\ probe.result # None) =>
        \A c \in 1..4 : \A e \in 1..4 :
            EdgeDistances(probe.arg, probe.result[1], 2 * c - 1)[e]
                >= cfg.MAGNET_RADIUS + cfg.MAGNET_SAFETY

\* C17: the four bore centres are at (x +/- (S/2 - offset), y +/- (S/2 -
\* offset)) with offset = max(configured, MAGNET_RADIUS + MAGNET_SAFETY), and
\* whenever that offset is at most S - (MAGNET_RADIUS + MAGNET_SAFETY), zero,
\* negative and too small configured offsets included, every centre is at
\* distance >= MAGNET_RADIUS + MAGNET_SAFETY from every edge of the footprint.
C17_BoreInsideMarginWithinRange ==
    (probe.fn = "add_corner_magnets" /\ probe.result # None) =>
        LET margin == cfg.MAGNET_RADIUS + cfg.MAGNET_SAFETY
            offset == Max(cfg.MAGNET_PERIM_OFFSET_MM * MM, margin)
            d == Half(cfg.TILE_SIZE) - offset
        IN  \A c \in 1..4 :
               LET bore == probe.result[1][2 * c - 1]
               IN  /\ bore.kind = "cylinder"
                   /\ bore.location[1] = probe.arg.x + CornerSigns[c][1] * d
                   /\ bore.location[2] = probe.arg.y + CornerSigns[c][2] * d
                   /\ offset <= cfg.TILE_SIZE - margin =>
                         \A e \in 1..4 :
                             EdgeDistances(probe.arg, probe.result[1], 2 * c - 1)[e] >= margin

\* The bores were placed for a negative configured offset: the first one is
\* exactly radius plus safety away from the west and south edges.
C17_Witness ==
    /\ probe.fn = "add_corner_magnets" /\ probe.result # None
    /\ cfg.MAGNET_PERIM_OFFSET_MM < 0
    /\ cfg.MAGNET_SAFETY > 0
    /\ EdgeDistances(probe.arg, probe.result[1], 1)[1] = cfg.MAGNET_RADIUS + cfg.MAGNET_SAFETY
    /\ EdgeDistances(probe.arg, probe.result[1], 1)[3] = cfg.MAGNET_RADIUS + cfg.MAGNET_SAFETY

-----------------------------------------------------------------------------
(* Order of the boolean steps and of the export *)

\* The names of the nine modifiers of a tile.
NineSteps ==
    {DifferenceName} \cup {ModifierName(b, k) : b \in {"MagnetHole", "MagnetCountersink"},
                                               k \in 0..3}

\* C18: for every tile the first boolean attempted is the city mesh's
\* 'Difference' and every later one is a magnet modifier, and a tile is
\* exported only when each of its nine booleans has been attempted once
\* (applied or failed): the modifiers an exported tile still carries are
\* those whose application failed.
C18_MeshFirstExportLast ==
    /\ \A i \in 1..Len(tiles) :
          LET done == StepsOf(tiles[i])
          IN  /\ done # <<>> => done[1] = DifferenceName
              /\ \A k \in 2..Len(done) : IsMagnetMod(done[k])
    /\ \A j \in 1..Len(exports) :
          LET t == exports[j].tile
              done == StepsOf(t)
          IN  /\ Len(done) = 9
              /\ {done[k] : k \in 1..9} = NineSteps
              /\ \A m \in 1..Len(exports[j].modifiers) :
                    \E k \in 1..Len(steps) :
                        /\ steps[k].tile = t
                        /\ steps[k].modifier = exports[j].modifiers[m].name
                        /\ ~steps[k].ok

\* A tile was exported after its 'Difference' failed and its eight magnet
\* booleans were applied.
C18_Witness ==
    \E j \in 1..Len(exports) :
        /\ Len(exports[j].modifiers) = 1
        /\ exports[j].modifiers[1].name = DifferenceName
        /\ Len(exports[j].applied) = 8
        /\ StepsOf(exports[j].tile)[1] = DifferenceName

-----------------------------------------------------------------------------
(* The Height Profiler *)

\* C19: min_z_in_tile returns the least z among exactly the vertices with
\* col*S <= x <= (col+1)*S and row*S <= y <= (row+1)*S, and None exactly when
\* there is no such vertex; the result is fixed by the set of the vertices,
\* whatever the order of the list.
C19_MinZInTile ==
    (probe.fn = "min_z_in_tile" /\ probe.result # None) =>
        LET ret == probe.result[1]
            S == cfg.TILE_SIZE
            row == probe.arg.index[1]
            col == probe.arg.index[2]
            inside == {v \in {probe.arg.verts[k] : k \in 1..Len(probe.arg.verts)} :
                          /\ col * S <= v.x /\ v.x <= (col + 1) * S
                          /\ row * S <= v.y /\ v.y <= (row + 1) * S}
        IN  /\ ret = None <=> inside = {}
            /\ inside # {} =>
                  /\ ret # None
                  /\ \E v \in inside : ret[1] = v.z
                  /\ \A v \in inside : ret[1] <= v.z

\* A call on a list of two vertices of the footprint: the lowest one comes
\* second and lies on the edge x = (col+1)*S.
C19_Witness ==
    /\ probe.fn = "min_z_in_tile" /\ probe.result # None
    /\ probe.result[1] # None
    /\ Len(probe.arg.verts) >= 2
    /\ probe.arg.verts[2].z = probe.result[1][1]
    /\ probe.arg.verts[1].z > probe.result[1][1]
    /\ probe.arg.verts[2].x = (probe.arg.index[2] + 1) * cfg.TILE_SIZE

-----------------------------------------------------------------------------
(* The Enclosure Builder *)

\* The faces of the box a tile object occupies: a cube of edge `size` centred
\* at its location and scaled along z by scale.z = cube_height / TILE_SIZE has
\* its faces half an edge from the centre in x and y, and half of
\* size * scale.z below and above the centre in z.
Extent(obj) ==
    LET c == obj.location
        h == Half(obj.size)
        below == c[3] - Half(obj.scale_z[1])
    IN  [x |-> <<c[1] - h, c[1] + h>>,
         y |-> <<c[2] - h, c[2] + h>>,
         z |-> <<below, below + obj.scale_z[1]>>]

\* C20: the cube built for a populated tile (row, col) spans
\* [col*S, (col+1)*S] x [row*S, (row+1)*S] in XY, and its centre and Z scale
\* put its lower face at bottom_z = quantized_bottom(min_z) and its upper
\* face at top_z = min_z + S/2, min_z being the profile of the tile.
C20_EnclosureExtent ==
    \A k \in 1..Len(profiled) :
        profiled[k].min_z # None =>
            LET row == profiled[k].row
                col == profiled[k].col
                min_z == profiled[k].min_z[1]
                S == cfg.TILE_SIZE
                obj == scene[TileName(row, col)]
                e == Extent(obj)
            IN  /\ e.x = <<col * S, (col + 1) * S>>
                /\ e.y = <<row * S, (row + 1) * S>>
                /\ e.z = <<quantized_bottom(min_z), min_z + Half(S)>>
                /\ obj.scale_z = <<min_z + Half(S) - quantized_bottom(min_z), S>>
                /\ obj.size = S

\* Scenario A has been built: tile (1,2) with min_z = 0.137 spans
\* [0.4, 0.6] x [0.2, 0.4] x [0.12 - EPS, 0.237].
C20_Witness ==
    /\ TileName(1, 2) \in DOMAIN scene
    /\ \E k \in 1..Len(profiled) :
          profiled[k] = [row |-> 1, col |-> 2, min_z |-> Some(1370000)]
    /\ Extent(scene[TileName(1, 2)]) =
          [x |-> <<4000000, 6000000>>, y |-> <<2000000, 4000000>>,
           z |-> <<1199990, 2370000>>]

-----------------------------------------------------------------------------
(* Bores and countersinks along Z *)

\* The Z of the lower and of the upper end of a cutter: a primitive of depth
\* d added at a location spans d/2 below and above it.
ZSpan(c) == <<c.location[3] - Half(c.depth), c.location[3] + Half(c.depth)>>

\* The underside of the cube add_corner_magnets was called for.
Underside(arg) == arg.z - Half(arg.cube_height)

\* C21 as stated: each bore is a cylinder of radius MAGNET_RADIUS and depth
\* MAGNET_HEIGHT + extra with extra > 0, its flat top is at the underside of
\* the tile and its lower end is strictly below the underside.
C21_BoreTopAtUnderside ==
    (probe.fn = "add_corner_magnets" /\ probe.result # None) =>
        \A c \in 1..4 :
            LET bore == probe.result[1][2 * c - 1]
            IN  /\ bore.kind = "cylinder"
                /\ bore.radius = cfg.MAGNET_RADIUS
                /\ extra > 0
                /\ bore.depth = cfg.MAGNET_HEIGHT + extra
                /\ ZSpan(bore)[2] = Underside(probe.arg)
                /\ ZSpan(bore)[1] < Underside(probe.arg)

\* C21: each bore is a cylinder of radius MAGNET_RADIUS and depth
\* MAGNET_HEIGHT + extra with extra > 0; its flat top is MAGNET_HEIGHT above
\* the underside of the tile, inside the tile, and its lower end is extra
\* below the underside, strictly below the tile's bottom face.
C21_BorePiercesUnderside ==
    (probe.fn = "add_corner_magnets" /\ probe.result # None) =>
        \A c \in 1..4 :
            LET bore == probe.result[1][2 * c - 1]
            IN  /\ bore.kind = "cylinder"
                /\ bore.radius = cfg.MAGNET_RADIUS
                /\ extra > 0
                /\ bore.depth = cfg.MAGNET_HEIGHT + extra
                /\ ZSpan(bore)[2] = Underside(probe.arg) + cfg.MAGNET_HEIGHT
                /\ ZSpan(bore)[1] = Underside(probe.arg) - extra
                /\ ZSpan(bore)[1] < Underside(probe.arg)

\* The bores of a tile whose underside is at 0.119999 were placed with the
\* default magnet height: they span 0.109999 to 0.121999.
C21_Witness ==
    /\ probe.fn = "add_corner_magnets" /\ probe.result # None
    /\ cfg.MAGNET_HEIGHT = 20000
    /\ Underside(probe.arg) = 1199990
    /\ \A c \in 1..4 : ZSpan(probe.result[1][2 * c - 1]) = <<1099990, 1219990>>

\* C22: each countersink is a cone of base radius max(MAGNET_RADIUS -
\* COUNTERSINK_SHOULDER, 0.0005) and of height equal to that radius, on the
\* (cx, cy) of its bore; its base plane is strictly below the bore's top face
\* and its apex is not below it, so cone and bore overlap in Z.
C22_CountersinkOverlapsBore ==
    (probe.fn = "add_corner_magnets" /\ probe.result # None) =>
        \A c \in 1..4 :
            LET bore == probe.result[1][2 * c - 1]
                cone == probe.result[1][2 * c]
                shouldered == cfg.MAGNET_RADIUS - cfg.COUNTERSINK_SHOULDER
            IN  /\ cone.kind = "cone"
                /\ cone.radius >= 5000
                /\ cone.radius >= shouldered
                /\ cone.radius \in {5000, shouldered}
                /\ cone.depth = cone.radius
                /\ cone.location[1] = bore.location[1]
                /\ cone.location[2] = bore.location[2]
                /\ ZSpan(cone)[1] < ZSpan(bore)[2]
                /\ ZSpan(cone)[2] >= ZSpan(bore)[2]

\* The countersinks were placed with a shoulder that leaves less than the
\* floor radius: the cones have radius and height 0.0005, their base is
\* 0.0005 below the top of the bore and their apex is at the top of the bore.
C22_Witness ==
    /\ probe.fn = "add_corner_magnets" /\ probe.result # None
    /\ cfg.MAGNET_RADIUS - cfg.COUNTERSINK_SHOULDER < 5000
    /\ \A c \in 1..4 :
          /\ probe.result[1][2 * c].radius = 5000
          /\ ZSpan(probe.result[1][2 * c])[1] = ZSpan(probe.result[1][2 * c - 1])[2] - 5000
          /\ ZSpan(probe.result[1][2 * c])[2] = ZSpan(probe.result[1][2 * c - 1])[2]

-----------------------------------------------------------------------------
(* Visibility at export *)

\* The names of the bore and countersink cutters in the scene.
Cutters(sc) == {n \in DOMAIN sc : sc[n].kind \in {"cylinder", "cone"}}

\* C23: whenever export_tile exports a tile, that tile is the only object of
\* the scene that is not hidden: the city mesh, the eight cutters of every
\* tile and every other tile are in the scene and hidden at that moment, and
\* from the end of the export on the tile is hidden again.
C23_OnlyExportedTileVisible ==
    \A k \in 1..Len(exports) :
        /\ exports[k].visible = {exports[k].tile}
        /\ exports[k].tile = tiles[k]
        /\ CityName \in DOMAIN scene
        /\ \A i \in 1..Len(tiles) : tiles[i] \in DOMAIN scene
        /\ Cardinality(Cutters(scene)) = 8 * Len(tiles)
        /\ Visible(scene) = {}

\* Two tiles were exported in a run that came to its end: each was alone
\* visible at its export, and city mesh, two tiles and sixteen cutters are
\* hidden now.
C23_Witness ==
    /\ pc = "done"
    /\ Len(exports) = 2
    /\ exports[1].visible = {tiles[1]}
    /\ exports[2].visible = {tiles[2]}
    /\ Cardinality(DOMAIN scene) = 19
    /\ \A n \in DOMAIN scene : scene[n].hidden

-----------------------------------------------------------------------------
(* Footprints of the grid *)

\* The indices of the grid.
GridSet == {<<r, c>> : r \in 0..(cfg.TILES_Y - 1), c \in 0..(cfg.TILES_X - 1)}

\* The grid tiles for which min_z_in_tile counts vertex w.
CountedFor(w) == {i \in GridSet : min_z_in_tile(<<w>>, i[1], i[2]) # None}

\* The number of grid columns (n = TILES_X) or rows (n = TILES_Y) whose
\* closed interval [k*S, (k+1)*S] holds coordinate a of the grid rectangle:
\* two on an inner grid line, one elsewhere.
Holders(a, n) ==
    IF a % cfg.TILE_SIZE = 0 /\ a # 0 /\ a # n * cfg.TILE_SIZE THEN 2 ELSE 1

\* C24: the footprints cover the grid rectangle and overlap on shared edges
\* only. Every vertex with 0 <= x <= TILES_X*S and 0 <= y <= TILES_Y*S is
\* counted by min_z_in_tile for at least one grid tile; two tiles that count
\* the same vertex are neighbours and the vertex lies on the grid line(s)
\* between them; a vertex on a shared edge is counted for both neighbours and
\* one on a shared corner for all four; and the call made counts a vertex
\* exactly when its tile is one of those.
C24_FootprintsCoverGrid ==
    (probe.fn = "min_z_in_tile" /\ probe.result # None) =>
        LET S == cfg.TILE_SIZE
            verts == probe.arg.verts
        IN  /\ \A k \in 1..Len(verts) :
                  \A counted \in {CountedFor(verts[k])} :
                      LET w == verts[k]
                          within == /\ 0 <= w.x /\ w.x <= cfg.TILES_X * S
                                    /\ 0 <= w.y /\ w.y <= cfg.TILES_Y * S
                      IN  /\ within => counted # {}
                          /\ within => Cardinality(counted)
                                          = Holders(w.x, cfg.TILES_X) * Holders(w.y, cfg.TILES_Y)
                          /\ ~within => counted = {}
                          /\ \A i \in counted : \A j \in counted :
                                /\ i[2] < j[2] => j[2] = i[2] + 1 /\ w.x = j[2] * S
                                /\ i[1] < j[1] => j[1] = i[1] + 1 /\ w.y = j[1] * S
            /\ probe.arg.index \in GridSet =>
                  (probe.result[1] # None
                      <=> \E k \in 1..Len(verts) : probe.arg.index \in CountedFor(verts[k]))

\* A call for tile (1,1) on a list that holds the vertex on the corner shared
\* by four tiles and the vertex on the edge shared by tiles (0,0) and (0,1):
\* the first is counted for the four tiles, this one included, the second
\* for the two.
C24_Witness ==
    /\ probe.fn = "min_z_in_tile" /\ probe.result # None
    /\ probe.arg.index = <<1, 1>>
    /\ probe.result[1] = Some(700000)
    /\ Len(probe.arg.verts) = 2
    /\ CountedFor(probe.arg.verts[1]) = {<<0, 0>>, <<0, 1>>, <<1, 0>>, <<1, 1>>}
    /\ CountedFor(probe.arg.verts[2]) = {<<0, 0>>, <<0, 1>>}

-----------------------------------------------------------------------------
(* The summary line *)

\* C25: the tile count printed by the final summary line equals the number
\* of tiles created and exported in the run, in single-tile and in full-grid
\* mode, skipped tiles included.
C25_SummaryCountsExported ==
    pc = "done" =>
        /\ stdout # <<>>
        /\ stdout[Len(stdout)].line = "Created"
        /\ stdout[Len(stdout)].count = Len(tiles)
        /\ stdout[Len(stdout)].count = Len(exports)

-----------------------------------------------------------------------------
(* Backend: what a user is shown *)

\* C26: every project list returned to a user who is not an admin (projects
\* page, projects table, and the tables create_project and delete_project
\* answer with) holds only projects assigned to that user.
C26_ListsOnlyAssigned ==
    (response.listing # None /\ response.user # None /\ response.user[1].is_admin # 1) =>
        \A id \in response.listing[1] : <<response.user[1].id, id>> \in user_projects

-----------------------------------------------------------------------------
(* Backend: who modifies a project *)

\* A request of one of the four handlers that modify a project or its files,
\* made with `cookie` for project `project_id`.
Modifies(cookie, project_id) ==
    \/ delete_project(cookie, project_id)
    \/ \E name \in ProjectNames : update_project(cookie, project_id, name)
    \/ \E accepted \in BOOLEAN, stored \in BOOLEAN :
          upload_file(cookie, project_id, accepted, stored)
    \/ \E f \in {g \in uploaded_files : g.project_id = project_id} : delete_file(cookie, f.id)

\* C27: a project is updated or deleted, and a file is uploaded to it or
\* deleted from it, only by a request authenticated as an admin or as the
\* user who created the project; every other request for an existing project
\* (no user, or a user who is neither) is answered 401 or 403 and leaves
\* projects, file records and stored files as they were.
C27_OnlyAdminOrCreatorModifies ==
    [][\A cookie \in Cookies : \A project_id \in ProjectIds :
          \A user \in {get_current_user(cookie)} : \A project \in {ProjectById(project_id)} :
              (/\ project # None
               /\ user = None \/ (user[1].is_admin # 1 /\ user[1].account # project[1].creator)
               /\ Modifies(cookie, project_id))
                  => /\ response'.status \in {401, 403}
                     /\ UNCHANGED <<projects, user_projects, uploaded_files, assets>>]_vars

-----------------------------------------------------------------------------
(* Backend: tokens and rights of a deleted account *)

\* A request made with `cookie`, to any handler that reads the cookie.
Served(cookie) ==
    \/ \E username \in Usernames, password \in Passwords, is_admin \in BOOLEAN :
          create_user(cookie, username, password, is_admin)
    \/ \E user_id \in UserIds : delete_user(cookie, user_id)
    \/ \E user_id \in UserIds, password \in Passwords : change_password(cookie, user_id, password)
    \/ \E user_id \in UserIds, project_ids \in SUBSET ProjectIds :
          assign_projects(cookie, user_id, project_ids)
    \/ projects_page(cookie)
    \/ projects_table(cookie)
    \/ \E name \in ProjectNames : create_project(cookie, name)
    \/ \E project_id \in ProjectIds : Modifies(cookie, project_id)
    \/ \E file_id \in FileIds : delete_file(cookie, file_id)

AccountExists(account) == \E u \in users : u.account = account

\* C28: once a user account is deleted, a request that carries a token issued
\* to it is answered as a request of no user (302, 401 or 403) and changes
\* nothing, also after a new account got the same username; and a project
\* whose creator's account is deleted is modified by admins only.
C28_DeletedAccountHasNoSession ==
    [][/\ \A t \in tokens :
             (~AccountExists(t.account) /\ Served(Some(t)))
                 => /\ response'.status \in {302, 401, 403}
                    /\ UNCHANGED <<users, projects, user_projects, uploaded_files, assets>>
       /\ \A cookie \in Cookies : \A p \in projects :
             \A user \in {get_current_user(cookie)} :
                 (/\ ~AccountExists(p.creator)
                  /\ user = None \/ user[1].is_admin # 1
                  /\ Modifies(cookie, p.id))
                     => /\ response'.status \in {401, 403}
                        /\ UNCHANGED <<projects, user_projects, uploaded_files, assets>>]_vars

-----------------------------------------------------------------------------
(* Backend: the users table *)

====
